---- MODULE Spec2Model ----
(***************************************************************************)
(* A model of the web crawler:                                             *)
(*   - LinkManager       (src/neo4j_link_manager.py), a Neo4j graph of     *)
(*     :Link nodes and LINKS_TO relationships driven by Cypher queries;    *)
(*   - MongoLinkManager  (src/database/mongo_link_manager.py), the         *)
(*     collections `links` and `linkChildren`;                             *)
(*   - RobotsHandler     (src/scraper/robots_handler.py), the robots.txt   *)
(*     cache, and the denial ledger of the Scraper of src/scraper.py;      *)
(*   - Scraper           (src/scraper/scraper.py): should_crawl and the    *)
(*     crawl loop;                                                         *)
(*   - scrape_website of both Scrapers: the requests they begin, the rate  *)
(*     limiter and the retry decorator of src/scraper.py;                  *)
(*   - remove_link and add_link of MongoLinkManager request by request,    *)
(*     as two processes run them on one database.                          *)
(* Each public method is one action; the Cypher clauses and the pymongo    *)
(* calls are operators on the store value, so that the crawl loop can use  *)
(* the same operators.                                                     *)
(***************************************************************************)
EXTENDS Integers, Sequences, FiniteSets, Bags, TLC

(***************************************************************************)
(* Python values.  None and a present value are kept apart by wrapping:    *)
(* None is <<>>, a value x is <<x>>.                                       *)
(***************************************************************************)
None == <<>>

Some(x) == <<x>>

(***************************************************************************)
(* URLs are strings, modelled as sequences of lexical tokens: an optional  *)
(* scheme token ("http:"), the "//" that introduces an authority, the      *)
(* authority, and path tokens.  "" is the empty sequence.                  *)
(***************************************************************************)
SchemeTokens == {"http:", "https:"}

PathTokens == {"/", "/x", "/y"}

UrlP1 == <<"http:", "//", "a.com", "/">>

UrlP2 == <<"http:", "//", "c.net", "/">>

UrlN == <<"http:", "//", "b.org", "/">>

UrlC1 == <<"http:", "//", "a.com", "/x">>

UrlC2 == <<"http:", "//", "c.net", "/x">>

UrlY == <<"http:", "//", "a.com", "/y">>

UrlS == <<"https:", "//", "a.com", "/x">>

\* the URLs the callers pass to the stores
Urls == {UrlP1, UrlP2, UrlN, UrlC1}

\* the pages of a small web and its hyperlinks <<page, linked page>>: two pages
\* link to UrlN, which links to two pages, to itself and back to a page linking
\* to it; a page linked from UrlN links back to it; the other links make
\* shortcuts and a longer cycle around UrlN
SiteUrls == Urls \cup {UrlC2}

SiteLinks == {<<UrlP1, UrlN>>, <<UrlP2, UrlN>>, <<UrlN, UrlC1>>, <<UrlN, UrlC2>>,
              <<UrlN, UrlN>>, <<UrlN, UrlP2>>, <<UrlC1, UrlN>>,
              <<UrlP1, UrlC1>>, <<UrlP1, UrlP2>>, <<UrlC1, UrlC2>>, <<UrlC2, UrlP1>>}

\* the domain names the callers pass to the stores
Domains == {"a.com", "b.org", "c.net"}

\* urllib.parse.urlsplit: the scheme is split off, then a netloc is read only
\* when the rest starts with "//", and runs up to the next "/", "?" or "#".
Netloc(url) ==
    LET rest == IF Len(url) > 0 /\ url[1] \in SchemeTokens THEN Tail(url) ELSE url
    IN  IF Len(rest) >= 1 /\ rest[1] = "//"
        THEN IF Len(rest) >= 2 /\ rest[2] \notin PathTokens THEN rest[2] ELSE ""
        ELSE ""

\* Python truthiness of an optional string argument (`if parent_url:`)
Truthy(opt) == opt # None /\ opt[1] # <<>>

(***************************************************************************)
(* Bounds of the exploration.                                              *)
(***************************************************************************)
\* number of steps (store calls and clock ticks) in one behaviour of StoreSpec
MaxCalls == 3

\* number of store calls in one behaviour of GraphSpec
MaxGraphCalls == 5

VARIABLES
    now,      \* the wall clock read by datetime() / datetime.now()
    neo,      \* the Neo4j database: [nodes, rels]
    mongo,    \* the MongoDB database: [links, link_children]
    lastOp,   \* the last call made and what each store returned
    calls,    \* number of steps taken so far
    tz,       \* the host's offset from UTC, in hours
    gate,     \* the robots cache: [files, parsers]
    ledger,   \* the denial ledger: [file, mem]
    crawl,    \* the crawl in progress: its locals and what its last cycle did
    ev,       \* the last politeness call made and its outcome
    net,      \* the network side: the clock in seconds, the rate limiter, the requests begun
    race      \* the store calls in progress in two processes sharing the MongoDB database

vars == <<now, neo, mongo, lastOp, calls, tz, gate, ledger, crawl, ev, net, race>>

\* the state of the network side and of the processes sharing a store
sideVars == <<net, race>>

\* the state of the crawler around the stores
crawlerVars == <<tz, gate, ledger, crawl, ev>>


(***************************************************************************)
(* LinkManager: the Neo4j graph.                                           *)
(* A node is a record of its properties; two nodes carrying the same url   *)
(* are told apart by the ordinal k.  A relationship is a record of the     *)
(* keys <<url, k>> of its two ends; parallel relationships are told apart  *)
(* by their own ordinal.                                                   *)
(***************************************************************************)
NodeKey(n) == <<n.url, n.k>>

\* MATCH (l:Link {url: $url})
MatchLink(nodes, url) == {n \in nodes : n.url = url}

SetMax(S) == IF S = {} THEN 0 ELSE CHOOSE m \in S : \A x \in S : x <= m

\* CREATE (:Link {url: $url}): a node with the url property alone
CreateLink(nodes, url) ==
    nodes \cup {[url |-> url,
                 k |-> 1 + SetMax({n.k : n \in MatchLink(nodes, url)}),
                 domain |-> None, lastChecked |-> None,
                 contentHash |-> None, lastModified |-> None]}

\* a MERGE that creates without matching first (CREATE in place of MERGE)
MergeLinkNoMatch(nodes, url) == CreateLink(nodes, url)

\* MERGE (l:Link {url: $url}): match, and create only when nothing matches
MergeLink(nodes, url) ==
    IF MatchLink(nodes, url) # {} THEN nodes ELSE CreateLink(nodes, url)

\* a SET that takes lastChecked from the last_modified argument
SetLinkPropsFromModified(nodes, url, domain, content_hash, last_modified, t) ==
    {IF n.url = url
     THEN [n EXCEPT !.domain = Some(domain), !.lastChecked = last_modified,
                    !.contentHash = content_hash, !.lastModified = last_modified]
     ELSE n : n \in nodes}

\* SET l.domain = ..., l.lastChecked = datetime(), l.contentHash = ...,
\*     l.lastModified = ...   (on every matched l; a null value drops the property)
SetLinkProps(nodes, url, domain, content_hash, last_modified, t) ==
    {IF n.url = url
     THEN [n EXCEPT !.domain = Some(domain), !.lastChecked = Some(t),
                    !.contentHash = content_hash, !.lastModified = last_modified]
     ELSE n : n \in nodes}

HasRel(rels, s, d) == \E r \in rels : r.src = s /\ r.dst = d

NewRel(rels, s, d) ==
    [src |-> s, dst |-> d,
     k |-> 1 + SetMax({r.k : r \in {q \in rels : q.src = s /\ q.dst = d}})]

\* CREATE (p)-[:LINKS_TO]->(c) for every pair, whether or not one is there
CreateRels(rels, pairs) == rels \cup {NewRel(rels, p[1], p[2]) : p \in pairs}

\* MERGE (p)-[:LINKS_TO]->(c) for every pair <<key of p, key of c>>
MergeRels(rels, pairs) ==
    CreateRels(rels, {p \in pairs : ~HasRel(rels, p[1], p[2])})

\* DETACH DELETE of the nodes in L
DetachDelete(st, L) ==
    LET keys == {NodeKey(l) : l \in L}
    IN  [nodes |-> st.nodes \ L,
         rels |-> {r \in st.rels : r.src \notin keys /\ r.dst \notin keys}]

\* LinkManager._create_or_update_link
CreateOrUpdateLink(st, url, domain, parent_url, content_hash, last_modified, t) ==
    LET n1 == MergeLink(st.nodes, url)
        n2 == SetLinkProps(n1, url, domain, content_hash, last_modified, t)
    IN  IF Truthy(parent_url)
        THEN LET n3 == MergeLink(n2, parent_url[1])
                 pairs == {<<NodeKey(p), NodeKey(l)>> :
                              p \in MatchLink(n3, parent_url[1]),
                              l \in MatchLink(n3, url)}
             IN  [nodes |-> n3, rels |-> MergeRels(st.rels, pairs)]
        ELSE [nodes |-> n2, rels |-> st.rels]

\* LinkManager.add_or_update_link
AddOrUpdateLink(st, url, parent_url, content_hash, last_modified, t) ==
    CreateOrUpdateLink(st, url, Netloc(url), parent_url, content_hash,
                       last_modified, t)

\* rows that bind one parent of l only
RemoveRowsOneParent(st, url) ==
    UNION {{<<p.src, c.dst>> :
               p \in LET into == {r \in st.rels : r.dst = NodeKey(l)}
                     IN  IF into = {} THEN {} ELSE {CHOOSE r \in into : TRUE},
               c \in {r \in st.rels : r.src = NodeKey(l)}}
           : l \in MatchLink(st.nodes, url)}

\* the rows of MATCH (l) OPTIONAL MATCH (l)-->(child) OPTIONAL MATCH (parent)-->(l)
\* in which both parent and child are bound, as pairs <<parent key, child key>>
RemoveRows(st, url) ==
    UNION {{<<p.src, c.dst>> : p \in {r \in st.rels : r.dst = NodeKey(l)},
                               c \in {r \in st.rels : r.src = NodeKey(l)}}
           : l \in MatchLink(st.nodes, url)}

\* LinkManager._remove_link
RemoveLinkTx(st, url) ==
    DetachDelete([nodes |-> st.nodes,
                  rels |-> MergeRels(st.rels, RemoveRows(st, url))],
                 MatchLink(st.nodes, url))

RECURSIVE SumOver(_, _)
SumOver(f, S) ==
    IF S = {} THEN 0
    ELSE LET x == CHOOSE y \in S : TRUE IN f[x] + SumOver(f, S \ {x})

\* size((l)-[:LINKS_TO]->())
OutDegree(st, l) == Cardinality({r \in st.rels : r.src = NodeKey(l)})

\* RETURN sum(num_deleted) as total_deleted
TotalDeleted(st, L) == SumOver([l \in L |-> OutDegree(st, l)], L)

\* LinkManager._delete_links_by_domain: [store after, value returned]
DeleteLinksByDomainTx(st, domain) ==
    LET L == {n \in st.nodes : n.domain = Some(domain)}
    IN  [store |-> DetachDelete(st, L), ret |-> TotalDeleted(st, L)]

\* LinkManager._update_last_checked
UpdateLastCheckedTx(st, url, t) ==
    [nodes |-> {IF n.url = url THEN [n EXCEPT !.lastChecked = Some(t)] ELSE n
                : n \in st.nodes},
     rels |-> st.rels]

\* LinkManager._get_children: the list [record["child.url"] ...], whose order
\* the database does not fix, as a bag of urls
GetChildrenTx(st, url) ==
    LET rs == {r \in st.rels : r.src[1] = url}
    IN  [u \in {r.dst[1] : r \in rs} |-> Cardinality({r \in rs : r.dst[1] = u})]

\* a query that follows the relationship the wrong way
GetParentResultsOutgoing(st, url) ==
    LET rows == {r.dst[1] : r \in {q \in st.rels : q.src[1] = url}}
    IN  IF rows = {} THEN {None} ELSE {Some(u) : u \in rows}

\* LinkManager._get_parent: result.single() hands back None on no record and
\* otherwise the first record, whichever the database yields first
GetParentResults(st, url) ==
    LET rows == {r.src[1] : r \in {q \in st.rels : q.dst[1] = url}}
    IN  IF rows = {} THEN {None} ELSE {Some(u) : u \in rows}

\* LinkManager._get_links_by_domain
NeoLinksByDomain(st, domain) ==
    {n.url : n \in {m \in st.nodes : m.domain = Some(domain)}}

(***************************************************************************)
(* MongoLinkManager: the collections `links` and `linkChildren`, each a    *)
(* sequence of documents in natural (insertion) order.                     *)
(***************************************************************************)
\* the filters {'url': ...}, {'domain': ...}, {'childUrl': ...}, {'parentUrl': ...}:
\* the positions of the documents that match
ByUrl(coll, url) == {i \in 1..Len(coll) : coll[i].url = url}

ByDomain(coll, domain) == {i \in 1..Len(coll) : coll[i].domain = domain}

ByChildUrl(coll, url) == {i \in 1..Len(coll) : coll[i].childUrl = url}

ByParentUrl(coll, url) == {i \in 1..Len(coll) : coll[i].parentUrl = url}

SetMin(S) == CHOOSE m \in S : \A x \in S : m <= x

\* the documents at the positions `hit`, in natural order
RECURSIVE Pick(_, _)
Pick(coll, hit) ==
    IF hit = {} THEN <<>>
    ELSE <<coll[SetMin(hit)]>> \o Pick(coll, hit \ {SetMin(hit)})

\* collection.find(filter)
Find(coll, hit) == Pick(coll, hit)

\* collection.delete_many(filter)
DeleteMany(coll, hit) == Pick(coll, (1..Len(coll)) \ hit)

\* collection.delete_one(filter): the first matching document goes
DeleteOne(coll, hit) ==
    IF hit = {} THEN coll ELSE DeleteMany(coll, {SetMin(hit)})

\* collection.find_one(filter): None, or the first matching document
FindOne(coll, hit) == IF hit = {} THEN None ELSE Some(coll[SetMin(hit)])

\* links.update_one({'url': url}, {'$set': link_doc}, upsert=True); link_doc sets
\* every field of the document
UpsertLinkDoc(links, doc) ==
    LET hit == ByUrl(links, doc.url)
    IN  IF hit = {} THEN Append(links, doc) ELSE [links EXCEPT ![SetMin(hit)] = doc]

\* link_children.insert_one({'parentUrl': ..., 'childUrl': ...})
InsertChild(link_children, parent, child) ==
    Append(link_children, [parentUrl |-> parent, childUrl |-> child])

\* MongoLinkManager.add_link
MongoAddLink(st, url, parent_url, t) ==
    LET link_doc == [url |-> url, domain |-> Netloc(url), parent |-> parent_url,
                     lastChecked |-> t]
    IN  [links |-> UpsertLinkDoc(st.links, link_doc),
         link_children |-> IF Truthy(parent_url)
                           THEN InsertChild(st.link_children, parent_url[1], url)
                           ELSE st.link_children]

\* MongoLinkManager.get_children: the list of childUrl, in natural order
MongoGetChildren(st, url) ==
    LET found == Find(st.link_children, ByParentUrl(st.link_children, url))
    IN  [i \in 1..Len(found) |-> found[i].childUrl]

\* MongoLinkManager.get_parent: link['parent'] if link else None
MongoGetParent(st, url) ==
    LET link == FindOne(st.links, ByUrl(st.links, url))
    IN  IF link # None THEN link[1].parent ELSE None

\* link_children.update_one({'childUrl': child}, {'$set': {'parentUrl': parent}})
SetParentOfOne(link_children, child, parent) ==
    LET hit == ByChildUrl(link_children, child)
    IN  IF hit = {} THEN link_children
        ELSE [link_children EXCEPT ![SetMin(hit)].parentUrl = parent]

\* the loop `for child in children` of remove_link
RECURSIVE RewireChildren(_, _, _)
RewireChildren(link_children, children, parent) ==
    IF children = <<>> THEN link_children
    ELSE LET child == Head(children)
             next == IF Truthy(parent)
                     THEN SetParentOfOne(link_children, child, parent[1])
                     ELSE DeleteOne(link_children, ByChildUrl(link_children, child))
         IN  RewireChildren(next, Tail(children), parent)

\* MongoLinkManager.remove_link
MongoRemoveLink(st, url) ==
    LET s1 == [links |-> DeleteOne(st.links, ByUrl(st.links, url)),
               link_children |-> DeleteMany(st.link_children,
                                            ByChildUrl(st.link_children, url))]
        children == MongoGetChildren(s1, url)
        parent == MongoGetParent(s1, url)
    IN  [links |-> s1.links,
         link_children |-> RewireChildren(s1.link_children, children, parent)]

\* MongoLinkManager.get_links_by_domain
MongoLinksByDomain(st, domain) ==
    LET found == Find(st.links, ByDomain(st.links, domain))
    IN  [i \in 1..Len(found) |-> found[i].url]

\* the loop `for url in links_to_delete` of delete_links_by_domain
RECURSIVE RemoveEach(_, _)
RemoveEach(st, urls) ==
    IF urls = <<>> THEN st ELSE RemoveEach(MongoRemoveLink(st, Head(urls)), Tail(urls))

\* MongoLinkManager.delete_links_by_domain: [store after, value returned];
\* result.deleted_count is the number of documents delete_many removed
MongoDeleteLinksByDomain(st, domain) ==
    LET s1 == RemoveEach(st, MongoLinksByDomain(st, domain))
        left == DeleteMany(s1.links, ByDomain(s1.links, domain))
    IN  [store |-> [links |-> left, link_children |-> s1.link_children],
         ret |-> Len(s1.links) - Len(left)]

\* MongoLinkManager.update_last_checked
MongoUpdateLastChecked(st, url, t) ==
    LET hit == ByUrl(st.links, url)
    IN  [links |-> IF hit = {} THEN st.links
                   ELSE [st.links EXCEPT ![SetMin(hit)].lastChecked = t],
         link_children |-> st.link_children]

(***************************************************************************)
(* The politeness gate.  RobotsHandler (src/scraper/robots_handler.py) is  *)
(* the gate of the Scraper of the package src/scraper; the Scraper of the  *)
(* module src/scraper.py carries the same gate in its own methods and adds *)
(* the denial ledger.  Every gate keeps its parsers in memory; all of them *)
(* keep the robots.txt files in the directory 'robot_cache' and the ledger *)
(* in the file 'unallowed_links.json' of the working directory.            *)
(* Time is counted in hours.                                               *)
(***************************************************************************)
\* hours in a day: timedelta(days=...) against differences of datetimes
Day == 24

\* timedelta(days=7) of is_file_outdated
RobotsTtlDays == 7

\* the gate of the package Scraper
Handler == "handler"

\* two Scraper objects of src/scraper.py, working in the same directory
Scrapers == {"s1", "s2"}

GateIds == {Handler} \cup Scrapers

\* the keys of the robots cache: urlparse(url).netloc of whatever is_allowed is
\* handed, which is "" for a string without "//" or with nothing after it
CacheKeys == Domains \cup {""}

\* the body of a robots.txt, as the paths of its Disallow lines for every agent
RobotsBodies == {<<>>, <<"/x">>, <<"/">>}

\* how session.get / raise_for_status can fail: a connection error, a status
\* of 400 or more, the timeout running out
FetchFailures == {"network", "status", "timeout"}

\* the failures raised as subclasses of aiohttp.ClientError (ClientConnectionError,
\* ClientResponseError); the timeout is raised as asyncio.TimeoutError, which is none
ClientErrors == {"network", "status", "invalid_url"}

\* what the site answers to GET https://{domain}/robots.txt
RobotsReplies ==
    {[ok |-> TRUE, body |-> b, err |-> "none"] : b \in RobotsBodies}
        \cup {[ok |-> FALSE, body |-> <<>>, err |-> e] : e \in FetchFailures}

\* urlparse(url).path as can_fetch reads it; an empty path counts as "/"
UrlPath(url) ==
    IF Len(url) > 0 /\ url[Len(url)] \in PathTokens THEN url[Len(url)] ELSE "/"

\* path.startswith(rule), on the paths "/", "/x", "/y"
StartsWith(path, rule) == rule = "/" \/ rule = path

\* RobotFileParser.parse(lines): the rules of the lines read from the file
ParseRobots(lines) == {lines[i] : i \in 1..Len(lines)}

\* RobotFileParser.can_fetch(agent, url): no rule, or no rule that applies, allows
CanFetch(rules, url) == \A rule \in rules : ~StartsWith(UrlPath(url), rule)

\* is_file_outdated: datetime.now() - mtime > timedelta(days=7)
IsFileOutdated(file, t) == t - file.mtime > RobotsTtlDays * Day

\* update_robot_file: [files after, whether an exception leaves the method]
UpdateRobotFile(files, domain, reply, t) ==
    IF reply.ok
    THEN [files |-> [files EXCEPT ![domain] = Some([body |-> reply.body, mtime |-> t])],
          raised |-> FALSE]
    ELSE IF reply.err \in ClientErrors
    THEN [files |-> [files EXCEPT ![domain] = Some([body |-> <<>>, mtime |-> t])],
          raised |-> FALSE]
    ELSE [files |-> files, raised |-> TRUE]

\* load_robot_parser of the gate `id`: [gate after, raised, whether robots.txt
\* was requested]
LoadRobotParser(g, id, domain, reply, t) ==
    LET need == g.files[domain] = None \/ IsFileOutdated(g.files[domain][1], t)
        upd == IF need THEN UpdateRobotFile(g.files, domain, reply, t)
               ELSE [files |-> g.files, raised |-> FALSE]
    IN  IF upd.raised
        THEN [gate |-> [g EXCEPT !.files = upd.files], raised |-> TRUE, fetched |-> need]
        ELSE [gate |-> [files |-> upd.files,
                        parsers |-> [g.parsers EXCEPT ![id][domain] =
                                        Some(ParseRobots(upd.files[domain][1].body))]],
              raised |-> FALSE, fetched |-> need]

\* RobotsHandler.is_allowed of the gate `id`: [gate after, ret, fetched], ret
\* being "True", "False" or "raised"
RobotsIsAllowed(g, id, url, reply, t) ==
    LET domain == Netloc(url)
        ld == IF g.parsers[id][domain] = None
              THEN LoadRobotParser(g, id, domain, reply, t)
              ELSE [gate |-> g, raised |-> FALSE, fetched |-> FALSE]
    IN  [gate |-> ld.gate,
         ret |-> IF ld.raised THEN "raised"
                 ELSE IF CanFetch(ld.gate.parsers[id][domain][1], url) THEN "True"
                 ELSE "False",
         fetched |-> ld.fetched]

(***************************************************************************)
(* The denial ledger of the Scraper of src/scraper.py: the list            *)
(* unallowed_links of each Scraper and the file unallowed_links.json, a    *)
(* text of JSON tokens.                                                    *)
(***************************************************************************)
JsonOpen == [t |-> "[", v |-> <<>>]

JsonClose == [t |-> "]", v |-> <<>>]

JsonComma == [t |-> ",", v |-> <<>>]

JsonString(s) == [t |-> "str", v |-> s]

\* the items of a JSON array, separated by commas
RECURSIVE JsonItems(_)
JsonItems(list) ==
    IF list = <<>> THEN <<>>
    ELSE IF Len(list) = 1 THEN <<JsonString(list[1])>>
    ELSE <<JsonString(list[1]), JsonComma>> \o JsonItems(Tail(list))

\* json.dump(list, f)
JsonDump(list) == <<JsonOpen>> \o JsonItems(list) \o <<JsonClose>>

\* the items between the brackets: [ok, value]; ok is FALSE on a JSONDecodeError
RECURSIVE JsonParseItems(_)
JsonParseItems(text) ==
    IF text[1].t # "str" THEN [ok |-> FALSE, value |-> <<>>]
    ELSE IF Len(text) = 1 THEN [ok |-> TRUE, value |-> <<text[1].v>>]
    ELSE IF Len(text) < 3 \/ text[2] # JsonComma THEN [ok |-> FALSE, value |-> <<>>]
    ELSE LET rest == JsonParseItems(SubSeq(text, 3, Len(text)))
         IN  [ok |-> rest.ok,
              value |-> IF rest.ok THEN <<text[1].v>> \o rest.value ELSE <<>>]

\* json.loads(content) of an array of strings
JsonLoads(text) ==
    IF Len(text) < 2 \/ text[1] # JsonOpen \/ text[Len(text)] # JsonClose
    THEN [ok |-> FALSE, value |-> <<>>]
    ELSE IF Len(text) = 2 THEN [ok |-> TRUE, value |-> <<>>]
    ELSE JsonParseItems(SubSeq(text, 2, Len(text) - 1))

\* x in list
InList(x, list) == \E i \in 1..Len(list) : list[i] = x

\* load_unallowed_links: [] when the file is missing, empty or not JSON
LoadUnallowedLinks(file) ==
    IF file = None THEN <<>>
    ELSE IF file[1] = <<>> THEN <<>>
    ELSE IF JsonLoads(file[1]).ok THEN JsonLoads(file[1]).value
    ELSE <<>>

\* save_unallowed_links of the Scraper s: the file is opened with 'w' and the
\* whole list is written
SaveUnallowedLinks(l, s) == [l EXCEPT !.file = Some(JsonDump(l.mem[s]))]

\* add_unallowed_link of the Scraper s
AddUnallowedLink(l, s, url) ==
    IF ~InList(url, l.mem[s])
    THEN SaveUnallowedLinks([l EXCEPT !.mem[s] = Append(@, url)], s)
    ELSE l

\* is_allowed of the gate `id`, for either kind of gate: the Scraper of
\* src/scraper.py records a denial, RobotsHandler has no ledger to record it in;
\* [gate, ledger, ret, fetched]
GateIsAllowed(g, l, id, url, reply, t) ==
    LET r == RobotsIsAllowed(g, id, url, reply, t)
    IN  [gate |-> r.gate,
         ledger |-> IF id \in Scrapers /\ r.ret = "False"
                    THEN AddUnallowedLink(l, id, url)
                    ELSE l,
         ret |-> r.ret,
         fetched |-> r.fetched]

\* the parsers of a gate just constructed: robot_parsers = {}
NoParsers == [d \in CacheKeys |-> None]

\* the last politeness call: who made it, on what, what it returned, whether it
\* requested robots.txt and what the site answered then
Event(op, who, url, ret, fetched, reply) ==
    [op |-> op, who |-> who, url |-> url, ret |-> ret, fetched |-> fetched,
     reply |-> reply]

NoReply == [ok |-> FALSE, body |-> <<>>, err |-> "none"]

NoEvent == Event("init", Handler, <<>>, "none", FALSE, NoReply)

\* a fresh working directory and gates just constructed in it
GateInit ==
    /\ gate = [files |-> [d \in CacheKeys |-> None],
               parsers |-> [id \in GateIds |-> NoParsers]]
    /\ ledger = [file |-> None, mem |-> [s \in Scrapers |-> <<>>]]
    /\ ev = NoEvent

(***************************************************************************)
(* The change detector: Scraper.should_crawl over the Neo4j graph, and     *)
(* LinkManager.content_exists.                                             *)
(***************************************************************************)
\* timedelta(days=7) of should_crawl
StalenessDays == 7

\* LinkManager._get_last_crawl_info: None when no node matches, otherwise the
\* two properties of the node, either of which may be null
GetLastCrawlInfo(st, url) ==
    LET rows == MatchLink(st.nodes, url)
    IN  IF rows = {} THEN None
        ELSE LET l == CHOOSE n \in rows : TRUE
             IN  Some([last_checked |-> l.lastChecked,
                       last_modified |-> l.lastModified])

\* datetime.now(): the time of day on the host's clock, without a time zone
LocalNow(t, z) == t + z

\* last_checked.to_native().replace(tzinfo=None): lastChecked was written by
\* Cypher's datetime(), a time in UTC; dropping the zone leaves the UTC reading
NaiveLastChecked(last_checked) == last_checked[1]

\* Scraper.should_crawl at time t on a host z hours off UTC
ShouldCrawl(st, url, t, z) ==
    LET last_crawl_info == GetLastCrawlInfo(st, url)
    IN  IF last_crawl_info = None THEN TRUE
        ELSE IF last_crawl_info[1].last_modified = None THEN TRUE
        ELSE LocalNow(t, z) - NaiveLastChecked(last_crawl_info[1].last_checked)
                 > StalenessDays * Day

\* LinkManager._content_exists: count(l) > 0 over MATCH (l:Link {contentHash: ...})
ContentExists(st, content_hash) ==
    \E l \in st.nodes : l.contentHash = Some(content_hash)

(***************************************************************************)
(* The crawl orchestrator: Scraper.crawl of src/scraper/scraper.py, one    *)
(* action per turn of its loop.  `crawl` holds the locals of the           *)
(* invocation (visited, to_visit, max_pages), the number of turns taken,   *)
(* what the last turn did, and a record of what has been done so far: the  *)
(* urls fetched and the urls denied in this invocation, the pairs          *)
(* <<url, content hash>> stored by this and the earlier invocations, every *)
(* to_visit.put of the invocation in the order made (`put`), for each item *)
(* in the queue, how many pages lie between it and the start url along the *)
(* chain of pages it was found through (`depths`), and what discover_links *)
(* returned for each page the invocation stored (`found`).                 *)
(***************************************************************************)
\* the rendered documents the sites serve: the digest of the text, the anchors
\* and the img/script/link references, already resolved by urljoin; a site may
\* serve any of them at any url
Docs ==
    {[hash |-> "h1", links |-> {UrlC1, UrlY, UrlN}, resources |-> {UrlC2}],
     [hash |-> "h2", links |-> {UrlP1}, resources |-> {}],
     [hash |-> "h3", links |-> {}, resources |-> {}]}

\* the document with a given digest
DocOf(hash) == CHOOSE d \in Docs : d.hash = hash

\* what scrape_website returns: None after an error, or the soup
Pages == {None} \cup {Some(d) : d \in Docs}

\* the orders in which list(set) can hand out the members of S
RECURSIVE Orders(_)
Orders(S) ==
    IF S = {} THEN {<<>>}
    ELSE UNION {{<<x>> \o o : o \in Orders(S \ {x})} : x \in S}

\* a condition that leaves the politeness operand out
EligibleUngated(seen, allowed, should) == ~seen /\ should

\* the condition `url not in visited and await is_allowed(url) and await
\* should_crawl(url)`, the later operands being evaluated only when the earlier hold
Eligible(seen, allowed, should) == ~seen /\ allowed = "True" /\ should

\* a loop condition that lets one more page in
LoopContinuesOneMore(c) == c.to_visit # <<>> /\ Cardinality(c.visited) <= c.max_pages

\* the condition of the while loop
LoopContinues(c) == c.to_visit # <<>> /\ Cardinality(c.visited) < c.max_pages

\* anchors of other domains counted as internal too
InternalLinksAnyDomain(g, url, doc, t) ==
    {l \in doc.links :
        Netloc(l) = Netloc(url) =>
            RobotsIsAllowed(g, Handler, l, NoReply, t).ret = "True"}

\* discover_links: the anchors on the domain of the page that is_allowed lets
\* through (the parser of that domain is in memory by then, so is_allowed makes
\* no request and changes nothing in the gate)
InternalLinks(g, url, doc, t) ==
    {l \in doc.links :
        /\ Netloc(l) = Netloc(url)
        /\ RobotsIsAllowed(g, Handler, l, NoReply, t).ret = "True"}

\* the anchors on the domain of the page that is_allowed turns down
DeniedLinks(g, url, doc, t) ==
    {l \in doc.links :
        /\ Netloc(l) = Netloc(url)
        /\ RobotsIsAllowed(g, Handler, l, NoReply, t).ret = "False"}

\* `for link in internal: self.link_manager.add_or_update_link(link)`
RECURSIVE UpsertEach(_, _, _)
UpsertEach(st, links, t) ==
    IF links = <<>> THEN st
    ELSE UpsertEach(AddOrUpdateLink(st, Head(links), None, None, None, t),
                    Tail(links), t)

\* links that go in at the front of the queue, each ahead of the one before
RECURSIVE PutEachFront(_, _, _)
PutEachFront(to_visit, links, visited) ==
    IF links = <<>> THEN to_visit
    ELSE PutEachFront(IF Head(links) \notin visited THEN <<Head(links)>> \o to_visit
                      ELSE to_visit,
                      Tail(links), visited)

\* `if link not in visited: await to_visit.put(link)`, link after link
RECURSIVE PutEach(_, _, _)
PutEach(to_visit, links, visited) ==
    IF links = <<>> THEN to_visit
    ELSE PutEach(IF Head(links) \notin visited THEN Append(to_visit, Head(links))
                 ELSE to_visit,
                 Tail(links), visited)

\* what a turn of the loop did: the url taken from the queue, what is_allowed
\* returned ("skipped" when it was not called), whether scrape_website was
\* called, the digest of what it returned, whether content_exists was True, and
\* how the turn ended
Turn(url, allowed, fetched, hash, exists, outcome) ==
    [url |-> url, allowed |-> allowed, fetched |-> fetched, hash |-> hash,
     exists |-> exists, outcome |-> outcome]

NoTurn == Turn(<<>>, "skipped", FALSE, None, FALSE, "none")

\* discover_links: the anchors off the domain of the page with scheme http or
\* https, which no is_allowed call filters
ExternalLinks(url, doc) ==
    {l \in doc.links :
        /\ Netloc(l) # Netloc(url)
        /\ Len(l) > 0 /\ l[1] \in SchemeTokens}

\* discover_links: the src or href of every img, script and link tag
ResourceLinks(url, doc) == doc.resources

\* visited.add(url)
MarkVisited(visited, url) == visited \cup {url}

\* one `await to_visit.put(url)`: the url, the page it was found on (None for
\* the start url) and the depth of the item
Put(url, from, depth) == [url |-> url, from |-> from, depth |-> depth]

\* the puts made for the links found on the page `url`, itself at depth d
PutsOf(links, url, d) == [i \in 1..Len(links) |-> Put(links[i], Some(url), d + 1)]

\* what discover_links(url, soup) has to tell about the page: its anchors as
\* resolved by urljoin and the lists external and resources it returns
Found(url, doc) ==
    [url |-> url, links |-> doc.links, external |-> ExternalLinks(url, doc),
     resources |-> ResourceLinks(url, doc)]

\* `await to_visit.put(start_url)` on the new asyncio.Queue()
FirstPut(start_url) == <<Put(start_url, None, 0)>>

\* a failed fetch after which the url counts as visited
AbandonCycleVisited(c, url, allowed) ==
    [c EXCEPT !.visited = @ \cup {url},
              !.last = Turn(url, allowed, TRUE, None, FALSE, "failed")]

\* a failed fetch after which the url goes back into the queue
AbandonCycleRequeued(c, url, allowed) ==
    [c EXCEPT !.to_visit = Append(@, url),
              !.depths = Append(@, 0),
              !.last = Turn(url, allowed, TRUE, None, FALSE, "failed")]

\* `if soup:` with soup None: the turn ends there, the loop goes on
AbandonCycle(c, url, allowed) ==
    [c EXCEPT !.last = Turn(url, allowed, TRUE, None, FALSE, "failed")]

\* one turn of the while loop on the locals c, the graph st and the gate g, at
\* time t on a host z hours off UTC; reply is what the site answers if robots.txt
\* is requested, page what scrape_website returns if it is called, order the
\* order in which the internal links come out of the set
CrawlTurn(c, st, g, reply, page, order, t, z) ==
    LET url == Head(c.to_visit)
        c1 == [c EXCEPT !.to_visit = Tail(c.to_visit), !.turns = @ + 1,
                        !.depths = Tail(c.depths)]
        seen == url \in c.visited
        chk == IF seen THEN [gate |-> g, ret |-> "skipped", fetched |-> FALSE]
               ELSE RobotsIsAllowed(g, Handler, url, reply, t)
        c2 == [c1 EXCEPT !.denied = IF chk.ret = "False" THEN @ \cup {url} ELSE @]
        should == ShouldCrawl(st, url, t, z)
    IN  IF chk.ret = "raised"
        THEN [crawl |-> [c2 EXCEPT !.state = "raised",
                                   !.last = Turn(url, "raised", FALSE, None, FALSE,
                                                 "raised")],
              neo |-> st, gate |-> chk.gate, robots |-> chk.fetched]
        ELSE IF ~Eligible(seen, chk.ret, should)
        THEN [crawl |-> [c2 EXCEPT !.last = Turn(url, chk.ret, FALSE, None, FALSE,
                                                 IF seen THEN "seen"
                                                 ELSE IF chk.ret = "False" THEN "denied"
                                                 ELSE "fresh")],
              neo |-> st, gate |-> chk.gate, robots |-> chk.fetched]
        ELSE LET c3 == [c2 EXCEPT !.fetched = @ \cup {url}]
             IN  IF page = None
                 THEN [crawl |-> AbandonCycle(c3, url, chk.ret),
                       neo |-> st, gate |-> chk.gate, robots |-> chk.fetched]
                 ELSE IF ContentExists(st, page[1].hash)
                 THEN [crawl |-> [c3 EXCEPT !.last = Turn(url, chk.ret, TRUE,
                                                          Some(page[1].hash), TRUE,
                                                          "duplicate")],
                       neo |-> st, gate |-> chk.gate, robots |-> chk.fetched]
                 ELSE LET st1 == AddOrUpdateLink(st, url, None, Some(page[1].hash),
                                                 Some(LocalNow(t, z)), t)
                          visited == MarkVisited(c.visited, url)
                          puts == PutsOf(PutEach(<<>>, order, visited), url,
                                         Head(c.depths))
                      IN  [crawl |-> [c3 EXCEPT
                                        !.visited = visited,
                                        !.to_visit = PutEach(@, order, visited),
                                        !.put = @ \o puts,
                                        !.found = @ \cup {Found(url, page[1])},
                                        !.depths = @ \o [i \in 1..Len(puts) |->
                                                            puts[i].depth],
                                        !.denied = @ \cup DeniedLinks(chk.gate, url,
                                                                      page[1], t),
                                        !.stored = {p \in @ : p[1] # url}
                                                       \cup {<<url, page[1].hash>>},
                                        !.last = Turn(url, chk.ret, TRUE,
                                                      Some(page[1].hash), FALSE,
                                                      "stored")],
                           neo |-> UpsertEach(st1, order, t),
                           gate |-> chk.gate, robots |-> chk.fetched]

\* no crawl has been started
CrawlIdle ==
    [state |-> "idle", visited |-> {}, to_visit |-> <<>>, max_pages |-> 0,
     turns |-> 0, last |-> NoTurn, fetched |-> {}, denied |-> {}, stored |-> {},
     put |-> <<>>, depths |-> <<>>, found |-> {}]

(***************************************************************************)
(* The network side of the crawlers: scrape_website of src/scraper.py      *)
(* under its decorators, scrape_website of src/scraper/scraper.py, and the *)
(* robots.txt request of update_robot_file.  `net` holds the clock in      *)
(* seconds, the counters of the rate limiter, the requests begun so far,   *)
(* what the last scrape_website call did, and how each crawl loop stands.  *)
(***************************************************************************)
\* @limits(calls=1, period=5)
RateCalls == 1

RatePeriod == 5

\* stop_after_attempt(3)
MaxAttempts == 3

\* wait_exponential(multiplier=1, min=4, max=10)
BackoffMin == 4

BackoffMax == 10

\* session.get(..., timeout=10), in seconds
RequestTimeout == 10

\* the default navigation timeout of page.goto, in seconds
GotoTimeout == 30

\* the two crawl loops: Scraper.crawl of src/scraper.py and of src/scraper/scraper.py
Crawlers == {"legacy", "package"}

\* the gate each of them asks
GateOf(who) == IF who = "legacy" THEN "s1" ELSE Handler

\* what tenacity's retry wraps.  The function it decorates is the plain wrapper
\* that sleep_and_retry returns, not the coroutine function: "sync" is the
\* library retrying the call that merely creates the coroutine, "async" is the
\* library retrying the awaited coroutine.
Builds == {"sync", "async"}

\* how a request can end
AttemptOutcomes == {"ok"} \cup FetchFailures

Max(a, b) == IF a >= b THEN a ELSE b

Min(a, b) == IF a <= b THEN a ELSE b

\* the wrapper of `limits` called at time c: the counters afterwards, whether
\* RateLimitException is raised, and its period_remaining
LimitsCall(lim, c) ==
    LET period_remaining == RatePeriod - (c - lim.last_reset)
        l1 == IF period_remaining <= 0 THEN [last_reset |-> c, num_calls |-> 0] ELSE lim
        l2 == [l1 EXCEPT !.num_calls = @ + 1]
    IN  [limiter |-> l2, raised |-> l2.num_calls > RateCalls,
         period_remaining |-> period_remaining]

\* the wrapper of sleep_and_retry: time.sleep(period_remaining) and again, until
\* the call goes through; the counters and the time at which it does
RECURSIVE SleepAndRetry(_, _)
SleepAndRetry(lim, c) ==
    LET r == LimitsCall(lim, c)
    IN  IF r.raised THEN SleepAndRetry(r.limiter, c + r.period_remaining)
        ELSE [limiter |-> r.limiter, clock |-> c]

\* the body of scrape_website of src/scraper.py: the soup, None after an
\* aiohttp.ClientError, or the asyncio.TimeoutError that no clause catches
LegacyBody(out) ==
    IF out = "ok" THEN [ret |-> "soup", took |-> 0]
    ELSE IF out \in ClientErrors THEN [ret |-> "None", took |-> 0]
    ELSE [ret |-> "raised", took |-> RequestTimeout]

\* the wait of tenacity after the attempt-th attempt
WaitExponential(attempt) == Max(BackoffMin, Min(2 ^ (attempt - 1), BackoffMax))

\* a request that begins
Request(at, kind, who) == [at |-> at, kind |-> kind, who |-> who]

\* `await self.scrape_website(url)` of src/scraper.py from the attempt-th attempt
\* on; outs[i] is how the i-th request ends
RECURSIVE ScrapeLegacy(_, _, _, _)
ScrapeLegacy(n, outs, attempt, tried) ==
    LET sr == SleepAndRetry(n.limiter, n.clock)
        body == LegacyBody(outs[attempt])
        n1 == [n EXCEPT !.limiter = sr.limiter,
                        !.clock = sr.clock + body.took,
                        !.starts = Append(@, Request(sr.clock, "page", "legacy"))]
        tried1 == Append(tried, outs[attempt])
    IN  IF body.ret # "raised" \/ n.build = "sync" \/ attempt >= MaxAttempts
        THEN [net |-> n1, ret |-> body.ret, attempts |-> tried1]
        ELSE ScrapeLegacy([n1 EXCEPT !.clock = @ + WaitExponential(attempt)],
                          outs, attempt + 1, tried1)

\* `await self.scrape_website(url)` of src/scraper/scraper.py: every exception
\* is caught
ScrapePackage(n, out) ==
    [net |-> [n EXCEPT !.clock = @ + (IF out = "timeout" THEN GotoTimeout ELSE 0),
                       !.starts = Append(@, Request(n.clock, "page", "package"))],
     ret |-> IF out = "ok" THEN "soup" ELSE "None",
     attempts |-> <<out>>]

\* what the last turn's scrape_website call did
Scraped(who, url, attempts, ret) ==
    [who |-> who, url |-> url, attempts |-> attempts, ret |-> ret]

\* the limiter was made at time 0, when the module was imported; it is now time
\* `clock` and no request has been made
NetStart(build, clock) ==
    [clock |-> clock, build |-> build, limiter |-> [last_reset |-> 0, num_calls |-> 0],
     starts |-> <<>>, last |-> Scraped("none", <<>>, <<>>, "none"),
     loop |-> [w \in Crawlers |-> "running"]]

(***************************************************************************)
(* Two processes on one MongoDB database.  Each pymongo call is one        *)
(* request that the server applies on its own; a method of                 *)
(* MongoLinkManager is a sequence of them, and the calls of the other      *)
(* process fall between them.  `race` holds the locals of a remove_link    *)
(* and of an add_link in progress, the database as it was before both      *)
(* (base) and when remove_link began (before), and the number of writes    *)
(* the other process made since.                                           *)
(***************************************************************************)
\* no call in progress
RaceIdle ==
    [rm |-> [pc |-> "idle", url |-> <<>>, children |-> <<>>, parent |-> None],
     ad |-> [pc |-> "idle", url |-> <<>>, parent |-> None],
     base |-> [links |-> <<>>, link_children |-> <<>>],
     before |-> [links |-> <<>>, link_children |-> <<>>],
     writes |-> 0]

(***************************************************************************)
(* The calls.  A step makes one call with the same arguments on both       *)
(* stores; the stores share nothing, so each goes through every state a    *)
(* sequence of calls can put it in.                                        *)
(***************************************************************************)
Op(name, args, neoRet, mongoRet) ==
    [op |-> name, args |-> args, neoRet |-> neoRet, mongoRet |-> mongoRet]

ParentArgs == {None} \cup {Some(u) : u \in Urls}

\* the arguments <<url, parent_url, content_hash, last_modified>> the callers
\* pass: a discovered link with or without its parent, or a fetched page with
\* its digest and datetime.now()
UpsertArgs(t) ==
    {<<u, p, None, None>> : u \in Urls, p \in ParentArgs}
        \cup {<<u, None, Some("h1"), Some(t)>> : u \in Urls}

\* add_or_update_link(url, parent_url, content_hash, last_modified) and
\* add_link(url, parent_url)
Upsert ==
    /\ calls < MaxCalls
    /\ \E a \in UpsertArgs(now) :
          /\ neo' = AddOrUpdateLink(neo, a[1], a[2], a[3], a[4], now)
          /\ mongo' = MongoAddLink(mongo, a[1], a[2], now)
          /\ lastOp' = Op("upsert", a, None, None)
    /\ calls' = calls + 1
    /\ UNCHANGED now
    /\ UNCHANGED crawlerVars
    /\ UNCHANGED sideVars

\* remove_link(url)
Remove ==
    /\ calls < MaxCalls
    /\ \E url \in Urls :
          /\ neo' = RemoveLinkTx(neo, url)
          /\ mongo' = MongoRemoveLink(mongo, url)
          /\ lastOp' = Op("remove", <<url>>, None, None)
    /\ calls' = calls + 1
    /\ UNCHANGED now
    /\ UNCHANGED crawlerVars
    /\ UNCHANGED sideVars

\* delete_links_by_domain(domain)
PurgeDomain ==
    /\ calls < MaxCalls
    /\ \E domain \in Domains :
          LET n == DeleteLinksByDomainTx(neo, domain)
              m == MongoDeleteLinksByDomain(mongo, domain)
          IN  /\ neo' = n.store
              /\ mongo' = m.store
              /\ lastOp' = Op("purge", <<domain>>, n.ret, m.ret)
    /\ calls' = calls + 1
    /\ UNCHANGED now
    /\ UNCHANGED crawlerVars
    /\ UNCHANGED sideVars

\* update_last_checked(url)
UpdateLastChecked ==
    /\ calls < MaxCalls
    /\ \E url \in Urls :
          /\ neo' = UpdateLastCheckedTx(neo, url, now)
          /\ mongo' = MongoUpdateLastChecked(mongo, url, now)
          /\ lastOp' = Op("touch", <<url>>, None, None)
    /\ calls' = calls + 1
    /\ UNCHANGED now
    /\ UNCHANGED crawlerVars
    /\ UNCHANGED sideVars

\* get_children(url)
GetChildren ==
    /\ calls < MaxCalls
    /\ \E url \in Urls :
          lastOp' = Op("children", <<url>>, GetChildrenTx(neo, url),
                       MongoGetChildren(mongo, url))
    /\ calls' = calls + 1
    /\ UNCHANGED <<now, neo, mongo>>
    /\ UNCHANGED crawlerVars
    /\ UNCHANGED sideVars

\* get_parent(url)
GetParent ==
    /\ calls < MaxCalls
    /\ \E url \in Urls :
          \E r \in GetParentResults(neo, url) :
              lastOp' = Op("parent", <<url>>, r, MongoGetParent(mongo, url))
    /\ calls' = calls + 1
    /\ UNCHANGED <<now, neo, mongo>>
    /\ UNCHANGED crawlerVars
    /\ UNCHANGED sideVars

\* time passes between two calls
Tick ==
    /\ calls < MaxCalls
    /\ now' = now + 1
    /\ lastOp' = Op("tick", <<>>, None, None)
    /\ calls' = calls + 1
    /\ UNCHANGED <<neo, mongo>>
    /\ UNCHANGED crawlerVars
    /\ UNCHANGED sideVars

Init ==
    /\ now = 0
    /\ neo = [nodes |-> {}, rels |-> {}]
    /\ mongo = [links |-> <<>>, link_children |-> <<>>]
    /\ lastOp = Op("init", <<>>, None, None)
    /\ calls = 0
    /\ tz = 0
    /\ GateInit
    /\ crawl = CrawlIdle
    /\ net = NetStart("sync", 0)
    /\ race = RaceIdle

StoreNext ==
    \/ Upsert
    \/ Remove
    \/ PurgeDomain
    \/ UpdateLastChecked
    \/ GetChildren
    \/ GetParent
    \/ Tick

StoreSpec == Init /\ [][StoreNext]_vars

(***************************************************************************)
(* The Neo4j graph alone, built from the hyperlinks of the small web and   *)
(* pruned by remove_link.                                                  *)
(***************************************************************************)
\* add_or_update_link(link, parent_url=page) for a hyperlink page -> link
GraphUpsert ==
    /\ calls < MaxGraphCalls
    /\ \E e \in SiteLinks :
          /\ neo' = AddOrUpdateLink(neo, e[2], Some(e[1]), None, None, now)
          /\ lastOp' = Op("upsert", <<e[2], Some(e[1]), None, None>>, None, None)
    /\ calls' = calls + 1
    /\ UNCHANGED <<now, mongo>>
    /\ UNCHANGED crawlerVars
    /\ UNCHANGED sideVars

\* remove_link(url)
GraphRemove ==
    /\ calls < MaxGraphCalls
    /\ \E url \in SiteUrls :
          /\ neo' = RemoveLinkTx(neo, url)
          /\ lastOp' = Op("remove", <<url>>, None, None)
    /\ calls' = calls + 1
    /\ UNCHANGED <<now, mongo>>
    /\ UNCHANGED crawlerVars
    /\ UNCHANGED sideVars

GraphNext ==
    \/ GraphUpsert
    \/ GraphRemove

GraphSpec == Init /\ [][GraphNext]_vars

(***************************************************************************)
(* The gate of the package Scraper alone: politeness calls, the clock, and *)
(* the construction of a new gate over the files the last one left.        *)
(***************************************************************************)
\* number of steps in one behaviour of GateSpec
MaxGateCalls == 5

\* the URLs asked about: two pages of one site and a page of another
GateUrls == {UrlP1, UrlC1, UrlN}

\* how long the crawler may sit between two calls, in hours
WaitSteps == {1, RobotsTtlDays * Day}

\* is_allowed(url) of the gate `id`
IsAllowedCall(id, url, reply) ==
    LET r == GateIsAllowed(gate, ledger, id, url, reply, now)
    IN  /\ gate' = r.gate
        /\ ledger' = r.ledger
        /\ ev' = Event("is_allowed", id, url, r.ret, r.fetched,
                       IF r.fetched THEN reply ELSE NoReply)

\* RobotsHandler.is_allowed(url)
IsAllowed ==
    /\ calls < MaxGateCalls
    /\ \E url \in GateUrls, reply \in RobotsReplies : IsAllowedCall(Handler, url, reply)
    /\ calls' = calls + 1
    /\ UNCHANGED <<now, neo, mongo, lastOp, tz, crawl>>
    /\ UNCHANGED sideVars

\* RobotsHandler.__init__: a new gate in the same working directory
NewHandler ==
    /\ calls < MaxGateCalls
    /\ gate' = [gate EXCEPT !.parsers[Handler] = NoParsers]
    /\ ev' = Event("construct", Handler, <<>>, "none", FALSE, NoReply)
    /\ calls' = calls + 1
    /\ UNCHANGED <<now, neo, mongo, lastOp, tz, ledger, crawl>>
    /\ UNCHANGED sideVars

\* time passes between two calls
Wait ==
    /\ calls < MaxGateCalls
    /\ \E d \in WaitSteps : now' = now + d
    /\ ev' = Event("wait", Handler, <<>>, "none", FALSE, NoReply)
    /\ calls' = calls + 1
    /\ UNCHANGED <<neo, mongo, lastOp, tz, gate, ledger, crawl>>
    /\ UNCHANGED sideVars

GateNext ==
    \/ IsAllowed
    \/ NewHandler
    \/ Wait

GateSpec == Init /\ [][GateNext]_vars

(***************************************************************************)
(* The ledger: the three gates at work in one directory, each Scraper of   *)
(* src/scraper.py possibly constructed anew.                               *)
(***************************************************************************)
\* number of steps in one behaviour of LedgerSpec
MaxLedgerCalls == 4

\* the URLs asked about: three pages of one site
LedgerUrls == {UrlP1, UrlC1, UrlY}

\* is_allowed(url) of any of the gates
LedgerCheck ==
    /\ calls < MaxLedgerCalls
    /\ \E id \in GateIds, url \in LedgerUrls, reply \in RobotsReplies :
          IsAllowedCall(id, url, reply)
    /\ calls' = calls + 1
    /\ UNCHANGED <<now, neo, mongo, lastOp, tz, crawl>>
    /\ UNCHANGED sideVars

\* Scraper.__init__ of src/scraper.py: the ledger is loaded, robot_parsers = {}
Construct ==
    /\ calls < MaxLedgerCalls
    /\ \E s \in Scrapers :
          /\ ledger' = [ledger EXCEPT !.mem[s] = LoadUnallowedLinks(ledger.file)]
          /\ gate' = [gate EXCEPT !.parsers[s] = NoParsers]
          /\ ev' = Event("construct", s, <<>>, "none", FALSE, NoReply)
    /\ calls' = calls + 1
    /\ UNCHANGED <<now, neo, mongo, lastOp, tz, crawl>>
    /\ UNCHANGED sideVars

LedgerNext ==
    \/ LedgerCheck
    \/ Construct

LedgerSpec == Init /\ [][LedgerNext]_vars

(***************************************************************************)
(* should_crawl as a function of the graph, the clock and the host's time  *)
(* zone: each behaviour starts from a graph that one call of               *)
(* add_or_update_link has filled, some time later, and asks once.          *)
(***************************************************************************)
\* the offsets from UTC of the hosts looked at, in hours
UtcOffsets == {-1, 0, 1}

\* when the one node was written, in hours
WrittenAt == {0, 5}

\* how long ago that was when should_crawl is called, in hours
Elapsed == {0, StalenessDays * Day - 1, StalenessDays * Day, StalenessDays * Day + 1,
            StalenessDays * Day + 2}

EmptyGraph == [nodes |-> {}, rels |-> {}]

\* the graphs after one call at time t on a host z hours off UTC: a page crawled
\* (content hash, last_modified = datetime.now()), a link discovered, a link
\* discovered with its parent
GraphsWrittenAt(t, z) ==
    {EmptyGraph}
        \cup {AddOrUpdateLink(EmptyGraph, u, None, Some("h1"), Some(LocalNow(t, z)), t)
                 : u \in Urls}
        \cup {AddOrUpdateLink(EmptyGraph, u, None, None, None, t) : u \in Urls}
        \cup {AddOrUpdateLink(EmptyGraph, UrlC1, Some(u), None, None, t)
                 : u \in Urls \ {UrlC1}}

FreshInit ==
    /\ tz \in UtcOffsets
    /\ \E t \in WrittenAt, d \in Elapsed :
          /\ now = t + d
          /\ neo \in GraphsWrittenAt(t, tz)
    /\ mongo = [links |-> <<>>, link_children |-> <<>>]
    /\ lastOp = Op("init", <<>>, None, None)
    /\ calls = 0
    /\ GateInit
    /\ crawl = CrawlIdle
    /\ net = NetStart("sync", 0)
    /\ race = RaceIdle

\* should_crawl(url)
ShouldCrawlCall ==
    /\ lastOp.op = "init"
    /\ \E url \in Urls :
          lastOp' = Op("should_crawl", <<url>>, ShouldCrawl(neo, url, now, tz), None)
    /\ calls' = calls + 1
    /\ UNCHANGED <<now, neo, mongo>>
    /\ UNCHANGED crawlerVars
    /\ UNCHANGED sideVars

FreshNext ==
    \/ ShouldCrawlCall

FreshSpec == FreshInit /\ [][FreshNext]_vars

(***************************************************************************)
(* Crawls of one Scraper over the Neo4j graph, one after another, with     *)
(* time passing in between.                                                *)
(***************************************************************************)
\* what the site answers if the gate `id` requests robots.txt for url; nothing
\* is requested when the gate has the parser of the domain
RepliesIfAsked(id, url) ==
    IF gate.parsers[id][Netloc(url)] = None THEN RobotsReplies ELSE {NoReply}

\* number of steps in one behaviour of CrawlSpec
MaxCrawlSteps == 6

\* the largest max_pages passed to crawl
MaxPages == 3

\* the start urls passed to crawl: the front page and an inner page of one site
CrawlStarts == {UrlP1, UrlC1}

\* how long the crawler may sit between two steps, in hours
SleepSteps == {StalenessDays * Day, StalenessDays * Day + 1}

\* crawl(start_url, max_pages) up to the first test of the loop condition
StartCrawl ==
    /\ calls < MaxCrawlSteps
    /\ crawl.state \in {"idle", "returned", "raised"}
    /\ \E start_url \in CrawlStarts, max_pages \in 0..MaxPages :
          crawl' = [state |-> "running", visited |-> {}, to_visit |-> <<start_url>>,
                    max_pages |-> max_pages, turns |-> 0, last |-> NoTurn,
                    fetched |-> {}, denied |-> {}, stored |-> crawl.stored,
                    put |-> FirstPut(start_url), depths |-> <<0>>, found |-> {}]
    /\ calls' = calls + 1
    /\ UNCHANGED <<now, neo, mongo, lastOp, tz, gate, ledger, ev>>
    /\ UNCHANGED sideVars

\* the while loop goes round once, condition and body, on a web that serves pages
LoopTurn(pages) ==
    /\ crawl.state = "running"
    /\ LoopContinues(crawl)
    /\ \E reply \in RepliesIfAsked(Handler, Head(crawl.to_visit)), page \in pages :
          \E order \in IF page = None THEN {<<>>}
                       ELSE Orders(InternalLinks(
                                RobotsIsAllowed(gate, Handler, Head(crawl.to_visit),
                                                reply, now).gate,
                                Head(crawl.to_visit), page[1], now)) :
             LET r == CrawlTurn(crawl, neo, gate, reply, page, order, now, tz)
             IN  /\ crawl' = r.crawl
                 /\ neo' = r.neo
                 /\ gate' = r.gate
                 /\ ev' = Event("is_allowed", Handler, r.crawl.last.url,
                                r.crawl.last.allowed, r.robots,
                                IF r.robots THEN reply ELSE NoReply)
    /\ UNCHANGED <<now, mongo, lastOp, tz, ledger>>
    /\ UNCHANGED sideVars

\* one turn of the while loop
CrawlStep ==
    /\ calls < MaxCrawlSteps
    /\ LoopTurn(Pages)
    /\ calls' = calls + 1

\* the loop condition fails: `finally` closes the browser, `return visited`
LoopExit ==
    /\ crawl.state = "running"
    /\ ~LoopContinues(crawl)
    /\ crawl' = [crawl EXCEPT !.state = "returned"]
    /\ UNCHANGED <<now, neo, mongo, lastOp, tz, gate, ledger, ev>>
    /\ UNCHANGED sideVars

\* the loop condition fails and crawl returns visited
CrawlReturn ==
    /\ calls < MaxCrawlSteps
    /\ LoopExit
    /\ calls' = calls + 1

\* time passes, during a crawl or between two
Sleep ==
    /\ calls < MaxCrawlSteps
    /\ crawl.state # "idle"
    /\ \E d \in SleepSteps : now' = now + d
    /\ calls' = calls + 1
    /\ UNCHANGED <<neo, mongo, lastOp, tz, gate, ledger, crawl, ev>>
    /\ UNCHANGED sideVars

CrawlNext ==
    \/ StartCrawl
    \/ CrawlStep
    \/ CrawlReturn
    \/ Sleep

CrawlSpec == Init /\ [][CrawlNext]_vars

(***************************************************************************)
(* One crawl run to its end on the event loop.  Nothing else runs and no   *)
(* time passes; every awaited call comes back, with a value or with an     *)
(* exception, so a turn of the loop that can be taken is taken.            *)
(***************************************************************************)
\* the largest max_pages passed to the crawl that is run to its end
RunPages == 4

\* what the sites serve in that crawl: the documents above and one more, which
\* links to a page that another document links to and back to the front page
RunPagesServed ==
    Pages \cup {Some([hash |-> "h4", links |-> {UrlY, UrlP1}, resources |-> {}])}

\* the most turns the loop is followed for
MaxTurns == 8

\* crawl(start_url, max_pages) up to the first test of the loop condition
RunStart ==
    /\ crawl.state = "idle"
    /\ \E start_url \in CrawlStarts, max_pages \in 0..RunPages :
          crawl' = [state |-> "running", visited |-> {}, to_visit |-> <<start_url>>,
                    max_pages |-> max_pages, turns |-> 0, last |-> NoTurn,
                    fetched |-> {}, denied |-> {}, stored |-> crawl.stored,
                    put |-> FirstPut(start_url), depths |-> <<0>>, found |-> {}]
    /\ UNCHANGED <<now, neo, mongo, lastOp, calls, tz, gate, ledger, ev>>
    /\ UNCHANGED sideVars

\* one turn of the while loop
RunStep ==
    /\ crawl.turns < MaxTurns
    /\ LoopTurn(RunPagesServed)
    /\ UNCHANGED calls

\* the loop condition fails and crawl returns visited
RunReturn ==
    /\ LoopExit
    /\ UNCHANGED calls

RunNext ==
    \/ RunStart
    \/ RunStep
    \/ RunReturn

RunSpec ==
    /\ Init
    /\ [][RunNext]_vars
    /\ WF_vars(RunStep)
    /\ WF_vars(RunReturn)

(***************************************************************************)
(* One crawl of a site that has a page under both schemes, links to        *)
(* another site and takes scripts and images from itself and from          *)
(* elsewhere, followed turn by turn.                                       *)
(***************************************************************************)
\* what the sites serve in that crawl: the documents of the run above and one
\* more, which links to a page that other documents link to, to a page of the
\* site under the other scheme and to another site, and takes a script from
\* the site and an image from elsewhere
WalkPagesServed ==
    RunPagesServed \cup {Some([hash |-> "h5", links |-> {UrlY, UrlS, UrlP2},
                               resources |-> {UrlC1, UrlC2}])}

\* one turn of the while loop
WalkStep ==
    /\ crawl.turns < MaxTurns
    /\ LoopTurn(WalkPagesServed)
    /\ UNCHANGED calls

WalkNext ==
    \/ RunStart
    \/ WalkStep
    \/ RunReturn

WalkSpec == Init /\ [][WalkNext]_vars

(***************************************************************************)
(* The stores and the gate handed strings that are not absolute URLs.      *)
(***************************************************************************)
\* number of calls in one behaviour of InputSpec
MaxInputCalls == 3

\* a string without a scheme, one with an empty authority, one without "//"
UrlNoScheme == <<"a.com", "/x">>

UrlNoHost == <<"http:", "//", "/x">>

UrlNoSlashes == <<"http:", "/x">>

\* the strings handed in: an absolute URL and the three others
InputUrls == {UrlC1, UrlNoScheme, UrlNoHost, UrlNoSlashes}

\* an absolute http(s) URL: scheme, "//", a non-empty authority
WellFormed(url) ==
    /\ Len(url) >= 3
    /\ url[1] \in SchemeTokens
    /\ url[2] = "//"
    /\ Netloc(url) # ""

\* what session.get answers for https://{domain}/robots.txt: with an empty domain
\* there is no host to connect to and aiohttp raises InvalidURL, a ClientError
RobotsRepliesFor(domain) ==
    IF domain = "" THEN {[ok |-> FALSE, body |-> <<>>, err |-> "invalid_url"]}
    ELSE RobotsReplies

\* add_or_update_link(url, parent_url) and add_link(url, parent_url) of any string
UpsertInput ==
    /\ calls < MaxInputCalls
    /\ \E url \in InputUrls, p \in {None, Some(UrlP1)} :
          /\ neo' = AddOrUpdateLink(neo, url, p, None, None, now)
          /\ mongo' = MongoAddLink(mongo, url, p, now)
          /\ lastOp' = Op("upsert", <<url, p, None, None>>, None, None)
    /\ calls' = calls + 1
    /\ UNCHANGED now
    /\ UNCHANGED crawlerVars
    /\ UNCHANGED sideVars

\* is_allowed(url) of any string, by the RobotsHandler and by a Scraper of
\* src/scraper.py
IsAllowedInput ==
    /\ calls < MaxInputCalls
    /\ \E id \in {Handler, "s1"}, url \in InputUrls :
          \E reply \in RobotsRepliesFor(Netloc(url)) : IsAllowedCall(id, url, reply)
    /\ calls' = calls + 1
    /\ UNCHANGED <<now, neo, mongo, lastOp, tz, crawl>>
    /\ UNCHANGED sideVars

InputNext ==
    \/ UpsertInput
    \/ IsAllowedInput

InputSpec == Init /\ [][InputNext]_vars

(***************************************************************************)
(* The network side of turns of the two crawl loops of one process, with   *)
(* seconds passing in between.                                             *)
(***************************************************************************)
\* number of steps in one behaviour of FetchSpec
MaxFetchSteps == 3

\* the urls the loops take out of their queues: two pages of one site
FetchUrls == {UrlP1, UrlC1}

\* how long the process may sit between two turns, in seconds
PauseSteps == {1, RatePeriod}

\* how long after the import the first crawl begins, in seconds
StartDelays == {0, RatePeriod - 1}

\* how the requests of one scrape_website call end; a later request is told
\* apart only after a timeout, the one failure that leaves the body
AttemptInputs ==
    {o \in [1..MaxAttempts -> AttemptOutcomes] :
        \A i \in 1..(MaxAttempts - 1) : o[i] # "timeout" => o[i + 1] = o[i]}

FetchInit ==
    /\ now = 0
    /\ neo = [nodes |-> {}, rels |-> {}]
    /\ mongo = [links |-> <<>>, link_children |-> <<>>]
    /\ lastOp = Op("init", <<>>, None, None)
    /\ calls = 0
    /\ tz = 0
    /\ GateInit
    /\ crawl = CrawlIdle
    /\ net \in {NetStart(b, c) : b \in Builds, c \in StartDelays}
    /\ race = RaceIdle

\* a turn of the loop of `who` up to `soup = await self.scrape_website(url)`:
\* is_allowed, which may request robots.txt, should_crawl, and the fetch; an
\* exception that leaves is_allowed or scrape_website leaves crawl
FetchTurn ==
    /\ calls < MaxFetchSteps
    /\ \E who \in Crawlers, url \in FetchUrls, outs \in AttemptInputs :
       \E reply \in RepliesIfAsked(GateOf(who), url) :
          /\ net.loop[who] = "running"
          /\ LET chk == GateIsAllowed(gate, ledger, GateOf(who), url, reply, now)
                 n1 == IF chk.fetched
                       THEN [net EXCEPT
                               !.starts = Append(@, Request(net.clock, "robots", who)),
                               !.clock = @ + (IF reply.err = "timeout"
                                              THEN RequestTimeout ELSE 0)]
                       ELSE net
                 sc == IF who = "legacy" THEN ScrapeLegacy(n1, outs, 1, <<>>)
                       ELSE ScrapePackage(n1, outs[1])
             IN  /\ gate' = chk.gate
                 /\ ledger' = chk.ledger
                 /\ ev' = Event("is_allowed", GateOf(who), url, chk.ret, chk.fetched,
                                IF chk.fetched THEN reply ELSE NoReply)
                 /\ net' = IF chk.ret = "raised"
                           THEN [n1 EXCEPT !.loop[who] = "raised by is_allowed",
                                           !.last = Scraped(who, url, <<>>, "none")]
                           ELSE IF ~Eligible(FALSE, chk.ret,
                                             ShouldCrawl(neo, url, now, tz))
                           THEN [n1 EXCEPT !.last = Scraped(who, url, <<>>, "none")]
                           ELSE [sc.net EXCEPT
                                   !.loop[who] = IF sc.ret = "raised"
                                                 THEN "raised by scrape_website"
                                                 ELSE @,
                                   !.last = Scraped(who, url, sc.attempts, sc.ret)]
    /\ calls' = calls + 1
    /\ UNCHANGED <<now, neo, mongo, lastOp, tz, crawl, race>>

\* seconds pass between two turns
Pause ==
    /\ calls < MaxFetchSteps
    /\ \E d \in PauseSteps : net' = [net EXCEPT !.clock = @ + d]
    /\ calls' = calls + 1
    /\ UNCHANGED <<now, neo, mongo, lastOp, tz, gate, ledger, crawl, ev, race>>

FetchNext ==
    \/ FetchTurn
    \/ Pause

FetchSpec == FetchInit /\ [][FetchNext]_vars

(***************************************************************************)
(* remove_link(N) of one process against add_link(N, ...) and the reads of *)
(* another, request by request, on a database that holds N with a parent   *)
(* and children.                                                           *)
(***************************************************************************)
\* the databases the race starts on, as add_link builds them: P1 -> N -> C1, and
\* the same with a second child P2 of N
RaceChain ==
    MongoAddLink(MongoAddLink(MongoAddLink([links |-> <<>>, link_children |-> <<>>],
                                           UrlP1, None, 0),
                              UrlN, Some(UrlP1), 0),
                 UrlC1, Some(UrlN), 0)

RaceBases == {RaceChain, MongoAddLink(RaceChain, UrlP2, Some(UrlN), 0)}

\* the url removed and added again, and the urls the other process reads about
RaceUrl == UrlN

RaceReadUrls == {UrlP1, UrlN, UrlC1}

RaceInit ==
    /\ now = 0
    /\ neo = [nodes |-> {}, rels |-> {}]
    /\ mongo \in RaceBases
    /\ lastOp = Op("init", <<>>, None, None)
    /\ calls = 0
    /\ tz = 0
    /\ GateInit
    /\ crawl = CrawlIdle
    /\ net = NetStart("sync", 0)
    /\ race = [RaceIdle EXCEPT !.base = mongo, !.before = mongo]

\* the removal has begun and has not returned
Removing == race.rm.pc \notin {"idle", "done"}

\* remove_link(url): self.links.delete_one({'url': url})
RemoveBegin ==
    /\ race.rm.pc = "idle"
    /\ mongo' = [mongo EXCEPT !.links = DeleteOne(@, ByUrl(@, RaceUrl))]
    /\ race' = [race EXCEPT !.rm.pc = "unlink", !.rm.url = RaceUrl,
                            !.before = mongo, !.writes = 0]
    /\ UNCHANGED <<now, neo, lastOp, calls, tz, gate, ledger, crawl, ev, net>>

\* self.link_children.delete_many({'childUrl': url})
RemoveUnlink ==
    /\ race.rm.pc = "unlink"
    /\ mongo' = [mongo EXCEPT !.link_children = DeleteMany(@, ByChildUrl(@, race.rm.url))]
    /\ race' = [race EXCEPT !.rm.pc = "children"]
    /\ UNCHANGED <<now, neo, lastOp, calls, tz, gate, ledger, crawl, ev, net>>

\* children = self.get_children(url)
RemoveGetChildren ==
    /\ race.rm.pc = "children"
    /\ race' = [race EXCEPT !.rm.pc = "parent",
                            !.rm.children = MongoGetChildren(mongo, race.rm.url)]
    /\ UNCHANGED <<now, neo, mongo, lastOp, calls, tz, gate, ledger, crawl, ev, net>>

\* parent = self.get_parent(url)
RemoveGetParent ==
    /\ race.rm.pc = "parent"
    /\ race' = [race EXCEPT !.rm.pc = "rewire",
                            !.rm.parent = MongoGetParent(mongo, race.rm.url)]
    /\ UNCHANGED <<now, neo, mongo, lastOp, calls, tz, gate, ledger, crawl, ev, net>>

\* one turn of `for child in children`: update_one or delete_one
RemoveRewire ==
    /\ race.rm.pc = "rewire"
    /\ race.rm.children # <<>>
    /\ mongo' = [mongo EXCEPT !.link_children =
                    RewireChildren(@, <<Head(race.rm.children)>>, race.rm.parent)]
    /\ race' = [race EXCEPT !.rm.children = Tail(@)]
    /\ UNCHANGED <<now, neo, lastOp, calls, tz, gate, ledger, crawl, ev, net>>

\* the loop is over and remove_link returns
RemoveReturn ==
    /\ race.rm.pc = "rewire"
    /\ race.rm.children = <<>>
    /\ race' = [race EXCEPT !.rm.pc = "done"]
    /\ UNCHANGED <<now, neo, mongo, lastOp, calls, tz, gate, ledger, crawl, ev, net>>

\* a write of the other process, counted once remove_link has begun
Written(r) == IF r.rm.pc = "idle" THEN r ELSE [r EXCEPT !.writes = @ + 1]

\* add_link(url, parent_url) of the other process: self.links.update_one(...,
\* upsert=True)
AddBegin ==
    /\ race.ad.pc = "idle"
    /\ \E parent_url \in {None, Some(UrlP1)} :
          /\ mongo' = [mongo EXCEPT !.links =
                          UpsertLinkDoc(@, [url |-> RaceUrl, domain |-> Netloc(RaceUrl),
                                            parent |-> parent_url, lastChecked |-> now])]
          /\ race' = [Written(race) EXCEPT
                        !.ad = [pc |-> IF Truthy(parent_url) THEN "insert" ELSE "done",
                                url |-> RaceUrl, parent |-> parent_url]]
    /\ UNCHANGED <<now, neo, lastOp, calls, tz, gate, ledger, crawl, ev, net>>

\* `if parent_url: self.link_children.insert_one(...)`, and add_link returns
AddInsert ==
    /\ race.ad.pc = "insert"
    /\ mongo' = [mongo EXCEPT !.link_children =
                    InsertChild(@, race.ad.parent[1], race.ad.url)]
    /\ race' = [Written(race) EXCEPT !.ad.pc = "done"]
    /\ UNCHANGED <<now, neo, lastOp, calls, tz, gate, ledger, crawl, ev, net>>

\* get_children(url) or get_parent(url) of the other process while remove_link
\* is under way
RaceRead ==
    /\ Removing
    /\ \E url \in RaceReadUrls :
          \/ lastOp' = Op("get_children", <<url>>, None, MongoGetChildren(mongo, url))
          \/ lastOp' = Op("get_parent", <<url>>, None, MongoGetParent(mongo, url))
    /\ UNCHANGED <<now, neo, mongo, calls, tz, gate, ledger, crawl, ev, net, race>>

RaceNext ==
    \/ RemoveBegin
    \/ RemoveUnlink
    \/ RemoveGetChildren
    \/ RemoveGetParent
    \/ RemoveRewire
    \/ RemoveReturn
    \/ AddBegin
    \/ AddInsert
    \/ RaceRead

RaceSpec == RaceInit /\ [][RaceNext]_vars

(***************************************************************************)
(* What the stores hold, read off the state.                               *)
(***************************************************************************)
NodeUrls(st) == {n.url : n \in st.nodes}

\* the discovery edges <<parent url, child url>> of the graph
UrlEdges(st) == {<<r.src[1], r.dst[1]>> : r \in st.rels}

Parents(st, url) == {e[1] : e \in {x \in UrlEdges(st) : x[2] = url}}

Children(st, url) == {e[2] : e \in {x \in UrlEdges(st) : x[1] = url}}

Range(seq) == {seq[i] : i \in 1..Len(seq)}

Count(seq, x) == Cardinality({i \in 1..Len(seq) : seq[i] = x})

LinkUrls(st) == {d.url : d \in Range(st.links)}

\* the linkChildren records as edges <<parentUrl, childUrl>>
ChildEdges(st) == {<<d.parentUrl, d.childUrl>> : d \in Range(st.link_children)}

(***************************************************************************)
(* C1.  LinkManager.remove_link(N): N is gone, every other node stays, and *)
(* the edges afterwards are the edges before without those touching N,     *)
(* plus one edge P -> C for every former parent P and former child C of N  *)
(* (N itself left out when it links to itself); nothing else is added, and *)
(* no edge is doubled.                                                     *)
(***************************************************************************)
ReparentedEdges(st, N) ==
    {e \in UrlEdges(st) : e[1] # N /\ e[2] # N}
        \cup ((Parents(st, N) \ {N}) \X (Children(st, N) \ {N}))

C1_RemoveReparentsAll ==
    [][lastOp'.op = "remove" =>
          LET N == lastOp'.args[1]
          IN  /\ NodeUrls(neo') = NodeUrls(neo) \ {N}
              /\ UrlEdges(neo') = ReparentedEdges(neo, N)
              /\ Cardinality(neo'.rels) = Cardinality(UrlEdges(neo'))]_vars

\* UrlN had the parents UrlP1, UrlP2 and the children UrlC1, UrlC2 and was removed
C1_Witness ==
    /\ lastOp.op = "remove"
    /\ lastOp.args[1] = UrlN
    /\ UrlN \notin NodeUrls(neo)
    /\ {UrlP1, UrlP2} \X {UrlC1, UrlC2} \subseteq UrlEdges(neo)

(***************************************************************************)
(* C2.  MongoLinkManager.remove_link(N), for N stored with a parent P      *)
(* other than itself and having children: afterwards N is not in `links`,  *)
(* get_children(P) holds every former child of N (other than N and P),     *)
(* and no linkChildren record names N.                                     *)
(***************************************************************************)
C2_MongoRemoveReparents ==
    [][lastOp'.op = "remove" =>
          LET N == lastOp'.args[1]
              P == MongoGetParent(mongo, N)
          IN  (N \in LinkUrls(mongo) /\ Truthy(P) /\ P # Some(N)) =>
                  /\ N \notin LinkUrls(mongo')
                  /\ \A C \in Range(MongoGetChildren(mongo, N)) \ {N, P[1]} :
                        C \in Range(MongoGetChildren(mongo', P[1]))
                  /\ \A e \in ChildEdges(mongo') : e[1] # N /\ e[2] # N]_vars

(***************************************************************************)
(* C3.  remove_link(url) for a url that has no node leaves the whole       *)
(* store, nodes and edges, as it was; in both stores.                      *)
(***************************************************************************)
C3_RemoveAbsentIsNoOp ==
    [][lastOp'.op = "remove" =>
          LET url == lastOp'.args[1]
          IN  /\ url \notin NodeUrls(neo) => neo' = neo
              /\ url \notin LinkUrls(mongo) => mongo' = mongo]_vars

C5_OneEdgePerPair ==
    (lastOp.op = "upsert" /\ Truthy(lastOp.args[2])) =>
        LET url == lastOp.args[1]
            parent == lastOp.args[2][1]
        IN  /\ Cardinality({r \in neo.rels : r.src[1] = parent /\ r.dst[1] = url}) = 1
            /\ CopiesIn(url, GetChildrenTx(neo, parent)) = 1
            /\ Cardinality(ByParentUrl(mongo.link_children, parent)
                               \cap ByChildUrl(mongo.link_children, url)) = 1
            /\ Count(MongoGetChildren(mongo, parent), url) = 1

(***************************************************************************)
(* C6.  Every node of either store has a domain, and it is the authority   *)
(* of the node's url.                                                      *)
(***************************************************************************)
C6_DomainIsAuthority ==
    /\ \A n \in neo.nodes : n.domain = Some(Netloc(n.url))
    /\ \A d \in Range(mongo.links) : d.domain = Netloc(d.url)

(***************************************************************************)
(* C7.  lastChecked of a node never goes down or away in any step, and an  *)
(* upsert or update_last_checked of a url sets the lastChecked of its node *)
(* to the current time; in both stores.  (The clock itself never runs      *)
(* backwards.)                                                             *)
(***************************************************************************)
C7_LastCheckedMonotone ==
    [][/\ \A n \in neo.nodes, m \in neo'.nodes :
             (NodeKey(n) = NodeKey(m) /\ n.lastChecked # None) =>
                 (m.lastChecked # None /\ m.lastChecked[1] >= n.lastChecked[1])
       /\ \A i \in 1..Len(mongo.links), j \in 1..Len(mongo'.links) :
             mongo.links[i].url = mongo'.links[j].url =>
                 mongo'.links[j].lastChecked >= mongo.links[i].lastChecked
       /\ lastOp'.op \in {"upsert", "touch"} =>
             /\ \A m \in MatchLink(neo'.nodes, lastOp'.args[1]) :
                   m.lastChecked = Some(now')
             /\ \A j \in ByUrl(mongo'.links, lastOp'.args[1]) :
                   mongo'.links[j].lastChecked = now'
       /\ lastOp'.op = "upsert" =>
             /\ MatchLink(neo'.nodes, lastOp'.args[1]) # {}
             /\ ByUrl(mongo'.links, lastOp'.args[1]) # {}]_vars

\* UrlN was upserted at time 0 (its first linkChildren record) and again at
\* time 1, which moved its lastChecked to 1
C7_Witness ==
    /\ lastOp.op = "upsert"
    /\ lastOp.args[1] = UrlN
    /\ now = 1
    /\ calls = 3
    /\ Cardinality(ByChildUrl(mongo.link_children, UrlN)) = 2
    /\ \E n \in MatchLink(neo.nodes, UrlN) : n.lastChecked = Some(1)
    /\ \E j \in ByUrl(mongo.links, UrlN) : mongo.links[j].lastChecked = 1

(***************************************************************************)
(* C8.  delete_links_by_domain(domain) leaves no node of that domain and   *)
(* returns the number of nodes it removed; in both stores.                 *)
(***************************************************************************)
C8_PurgeReturnsCount ==
    [][lastOp'.op = "purge" =>
          LET domain == lastOp'.args[1]
          IN  /\ \A n \in neo'.nodes : n.domain # Some(domain)
              /\ ByDomain(mongo'.links, domain) = {}
              /\ lastOp'.neoRet = Cardinality(neo.nodes) - Cardinality(neo'.nodes)
              /\ lastOp'.mongoRet = Len(mongo.links) - Len(mongo'.links)]_vars

(***************************************************************************)
(* C9.  delete_links_by_domain(domain): when a purged node N has a parent  *)
(* P and a child C whose urls are both outside the domain, the edge        *)
(* P -> C is there afterwards; in both stores.                             *)
(***************************************************************************)
C9_PurgeReparents ==
    [][lastOp'.op = "purge" =>
          LET domain == lastOp'.args[1]
          IN  /\ \A n \in {x \in neo.nodes : x.domain = Some(domain)} :
                    \A P \in Parents(neo, n.url), C \in Children(neo, n.url) :
                        (Netloc(P) # domain /\ Netloc(C) # domain) =>
                            <<P, C>> \in UrlEdges(neo')
              /\ \A i \in ByDomain(mongo.links, domain) :
                    \A e \in ChildEdges(mongo), f \in ChildEdges(mongo) :
                        (/\ e[2] = mongo.links[i].url
                         /\ f[1] = mongo.links[i].url
                         /\ Netloc(e[1]) # domain
                         /\ Netloc(f[2]) # domain) =>
                            <<e[1], f[2]>> \in ChildEdges(mongo')]_vars

(***************************************************************************)
(* C10.  As claimed: get_parent(url) returns all the urls with an edge     *)
(* into url (nothing when there is none), and get_children(url) all the    *)
(* targets of the edges out of url; in both stores.                        *)
(***************************************************************************)
ReturnedUrls(ret) == IF ret = None THEN {} ELSE {ret[1]}

ChildrenAreAllTargets ==
    lastOp.op = "children" =>
        /\ BagToSet(lastOp.neoRet) = Children(neo, lastOp.args[1])
        /\ Range(lastOp.mongoRet) =
               {e[2] : e \in {x \in ChildEdges(mongo) : x[1] = lastOp.args[1]}}

C10_ParentsAreAllSources ==
    /\ lastOp.op = "parent" =>
          /\ ReturnedUrls(lastOp.neoRet) = Parents(neo, lastOp.args[1])
          /\ ReturnedUrls(lastOp.mongoRet) =
                 {e[1] : e \in {x \in ChildEdges(mongo) : x[2] = lastOp.args[1]}}
    /\ ChildrenAreAllTargets

(***************************************************************************)
(* C10, amended.  LinkManager.get_parent(url) returns None when no edge    *)
(* enters url and otherwise one url, the source of one of the edges into   *)
(* url; MongoLinkManager.get_parent(url) returns None when url has no      *)
(* document and otherwise the parent field stored in it; get_children(url) *)
(* returns all the targets of the edges out of url.                        *)
(***************************************************************************)
C10_ParentIsOneSource ==
    /\ lastOp.op = "parent" =>
          /\ Parents(neo, lastOp.args[1]) = {} => lastOp.neoRet = None
          /\ Parents(neo, lastOp.args[1]) # {} =>
                ReturnedUrls(lastOp.neoRet) \in
                    {{p} : p \in Parents(neo, lastOp.args[1])}
          /\ lastOp.args[1] \notin LinkUrls(mongo) => lastOp.mongoRet = None
          /\ \A d \in Range(mongo.links) :
                d.url = lastOp.args[1] => lastOp.mongoRet = d.parent
    /\ ChildrenAreAllTargets

\* get_parent was asked about a url that two pages link to
C10_Witness ==
    /\ lastOp.op = "parent"
    /\ Cardinality(Parents(neo, lastOp.args[1])) = 2
    /\ lastOp.neoRet # None

\* the URLs of the ledger file, as a Scraper starting up would load them
FileUrls(l) == LoadUnallowedLinks(l.file)

(***************************************************************************)
(* C12.  is_allowed(url) when the robots.txt file of the url's domain is   *)
(* older than 7 days requests robots.txt again before it answers, whether  *)
(* or not the gate holds a parser for the domain; when the file is at most *)
(* 7 days old it makes no request.                                         *)
(***************************************************************************)
C12_StalePolicyRefetched ==
    [][ev'.op = "is_allowed" =>
          LET file == gate.files[Netloc(ev'.url)]
          IN  file # None =>
                  (ev'.fetched <=> IsFileOutdated(file[1], now))]_vars

(***************************************************************************)
(* C13.  is_allowed(url) whose request for robots.txt fails, in whichever  *)
(* way, returns True without raising and leaves an empty robots.txt file   *)
(* for the domain, written now; and a call that finds a file at most 7     *)
(* days old makes no request.                                              *)
(***************************************************************************)
C13_FetchFailureAllows ==
    [][ev'.op = "is_allowed" =>
          LET domain == Netloc(ev'.url)
          IN  /\ (ev'.fetched /\ ~ev'.reply.ok) =>
                    /\ ev'.ret = "True"
                    /\ gate'.files[domain] = Some([body |-> <<>>, mtime |-> now])
              /\ (gate.files[domain] # None
                     /\ ~IsFileOutdated(gate.files[domain][1], now)) =>
                    ~ev'.fetched]_vars

(***************************************************************************)
(* C14.  After is_allowed(u) has returned False, the ledger file holds u   *)
(* exactly once, and so does the list unallowed_links of the Scraper that  *)
(* was asked.                                                              *)
(***************************************************************************)
C14_DenialRecordedOnce ==
    (ev.op = "is_allowed" /\ ev.ret = "False") =>
        /\ Count(FileUrls(ledger), ev.url) = 1
        /\ ev.who \in Scrapers => Count(ledger.mem[ev.who], ev.url) = 1

(***************************************************************************)
(* C15.  A url that the ledger file holds is still in the file after any   *)
(* step: a gate starting up, or a denial being recorded.                   *)
(***************************************************************************)
C15_LedgerFileOnlyGrows ==
    [][\A u \in Range(FileUrls(ledger)) : InList(u, FileUrls(ledger'))]_vars

(***************************************************************************)
(* C16.  Every denial a Scraper has recorded is in the ledger file: no     *)
(* write of one Scraper drops what another, or it itself, recorded.        *)
(***************************************************************************)
C16_NoDenialLost ==
    \A s \in Scrapers :
        \A u \in Range(ledger.mem[s]) : InList(u, FileUrls(ledger))

(***************************************************************************)
(* C17.  should_crawl(url) is True when the graph has no node for url,     *)
(* True when the node has no lastModified, and otherwise True exactly when *)
(* more than 7 days have passed since lastChecked (False at 7 days sharp). *)
(***************************************************************************)
C17_ThreeRulePolicy ==
    lastOp.op = "should_crawl" =>
        LET rows == MatchLink(neo.nodes, lastOp.args[1])
        IN  lastOp.neoRet =
               (\/ rows = {}
                \/ \E l \in rows :
                      \/ l.lastModified = None
                      \/ now - l.lastChecked[1] > StalenessDays * Day)

\* a turn of the crawl loop has just been taken
TurnTaken == crawl'.turns = crawl.turns + 1

(***************************************************************************)
(* C11.  In a crawl, scrape_website is called in a turn only when          *)
(* is_allowed returned True for the url in that turn; and a url for which  *)
(* is_allowed returned False in the crawl, in the loop or in               *)
(* discover_links, has not been fetched, is not in visited, and has no     *)
(* node with a content hash.                                               *)
(***************************************************************************)
C11_PolitenessNeverBypassed ==
    /\ crawl.last.fetched => crawl.last.allowed = "True"
    /\ \A u \in crawl.denied :
          /\ u \notin crawl.fetched
          /\ u \notin crawl.visited
          /\ \A l \in MatchLink(neo.nodes, u) : l.contentHash = None

\* a second crawl was started at a url that robots.txt disallows, after a crawl
\* that fetched and stored another page of the site
C11_Witness ==
    /\ crawl.last.outcome = "denied"
    /\ crawl.last.url \in crawl.denied
    /\ crawl.fetched = {}
    /\ \E l \in neo.nodes : l.contentHash # None /\ Netloc(l.url) = Netloc(crawl.last.url)

C19_DuplicateContentSkipped ==
    [][(TurnTaken /\ crawl'.last.hash # None) =>
          ((\E p \in crawl.stored :
                p[1] # crawl'.last.url /\ p[2] = crawl'.last.hash[1]) =>
              /\ crawl'.last.exists
              /\ crawl'.to_visit = Tail(crawl.to_visit)
              /\ NodeUrls(neo') \subseteq NodeUrls(neo) \cup {crawl'.last.url})]_vars

(***************************************************************************)
(* C20.  At every point of crawl(start_url, max_pages), visited holds at   *)
(* most max_pages urls; with max_pages = 0 nothing is fetched; crawl       *)
(* returns only with an empty queue or max_pages urls in visited; and once *)
(* the queue is empty or visited holds max_pages urls, the crawl takes no  *)
(* further turn: it returns.                                               *)
(***************************************************************************)
C20_PageBudget ==
    /\ [](/\ Cardinality(crawl.visited) <= crawl.max_pages
          /\ crawl.max_pages = 0 => crawl.fetched = {}
          /\ crawl.state = "returned" =>
                (crawl.to_visit = <<>> \/ Cardinality(crawl.visited) >= crawl.max_pages))
    /\ [][(/\ crawl.state = "running"
           /\ (crawl.to_visit = <<>> \/ Cardinality(crawl.visited) >= crawl.max_pages)) =>
              (crawl' = crawl \/ crawl' = [crawl EXCEPT !.state = "returned"])]_vars

\* a crawl with max_pages = 2 returned with two pages visited and urls left in
\* the queue
C20_Witness ==
    /\ crawl.state = "returned"
    /\ crawl.max_pages = 2
    /\ Cardinality(crawl.visited) = 2
    /\ crawl.to_visit # <<>>

\* the page stored, or found to be a duplicate, by the turn just taken
LastDoc == DocOf(crawl'.last.hash[1])

(***************************************************************************)
(* C23.  A turn in which scrape_website returned None changes nothing in   *)
(* either store, leaves visited as it was, and leaves in the queue what    *)
(* was behind the url taken out: nothing is put in, the url itself         *)
(* included.                                                               *)
(***************************************************************************)
C23_FetchFailureLeavesNoTrace ==
    [][(TurnTaken /\ crawl'.last.outcome = "failed") =>
          /\ neo' = neo
          /\ mongo' = mongo
          /\ crawl'.visited = crawl.visited
          /\ crawl'.last.url \notin crawl'.visited
          /\ crawl'.to_visit = Tail(crawl.to_visit)]_vars

\* the fetch of a queued link failed in a crawl that had stored a page, with
\* other links still waiting in the queue
C23_Witness ==
    /\ crawl.last.outcome = "failed"
    /\ crawl.visited # {}
    /\ crawl.last.url \notin crawl.visited
    /\ crawl.to_visit # <<>>
    /\ neo.nodes # {}

(***************************************************************************)
(* C25.  After a turn that stored a page P, every anchor L of P on P's     *)
(* domain that is_allowed lets through has a node, the graph has the edge  *)
(* P -> L (get_children(P) holds L), and L is in the queue unless it is in *)
(* visited.                                                                *)
(***************************************************************************)
C25_InternalLinksBecomeChildren ==
    [][(TurnTaken /\ crawl'.last.outcome = "stored") =>
          \A L \in InternalLinks(gate', crawl'.last.url, LastDoc, now) :
              /\ L \in NodeUrls(neo')
              /\ <<crawl'.last.url, L>> \in UrlEdges(neo')
              /\ L \in DOMAIN GetChildrenTx(neo', crawl'.last.url)
              /\ L \notin crawl'.visited => L \in Range(crawl'.to_visit)]_vars

(***************************************************************************)
(* C26.  After a turn that stored a page P, every anchor of P that leaves  *)
(* P's domain and every img/script/link reference of P has a node in the   *)
(* graph.                                                                  *)
(***************************************************************************)
C26_ExternalAndResourceRecorded ==
    [][(TurnTaken /\ crawl'.last.outcome = "stored") =>
          \A L \in ExternalLinks(crawl'.last.url, LastDoc)
                      \cup ResourceLinks(crawl'.last.url, LastDoc) :
              L \in NodeUrls(neo')]_vars

(***************************************************************************)
(* C29.  A turn whose page hashes to a digest the graph already holds sets *)
(* the lastChecked of the url's node to the current time and changes       *)
(* nothing else in the graph, and puts nothing in the queue.               *)
(***************************************************************************)
C29_DuplicateRefreshesLastChecked ==
    [][(TurnTaken /\ crawl'.last.outcome = "duplicate") =>
          /\ neo' = UpdateLastCheckedTx(neo, crawl'.last.url, now)
          /\ crawl'.to_visit = Tail(crawl.to_visit)]_vars

(***************************************************************************)
(* C28.  No store holds a node or document for a string that is not an     *)
(* absolute URL, none holds an empty domain, and is_allowed of such a      *)
(* string ends in an error.                                                *)
(***************************************************************************)
C28_MalformedUrlRejected ==
    /\ \A n \in neo.nodes : WellFormed(n.url) /\ n.domain # Some("")
    /\ \A d \in Range(mongo.links) : WellFormed(d.url) /\ d.domain # ""
    /\ (ev.op = "is_allowed" /\ ~WellFormed(ev.url)) => ev.ret = "raised"

(***************************************************************************)
(* C22.  A crawl that has started ends: it returns, with the queue empty   *)
(* or max_pages urls in visited, whatever the pages link to; the one other *)
(* end is a robots.txt request that does not come back (it timed out), on  *)
(* which is_allowed raises.                                                *)
(***************************************************************************)
C22_CrawlTerminates ==
    (crawl.state = "running") ~>
        \/ /\ crawl.state = "returned"
           /\ crawl.to_visit = <<>> \/ Cardinality(crawl.visited) >= crawl.max_pages
        \/ /\ crawl.state = "raised"
           /\ ev.reply.err = "timeout"

\* a crawl returned with its queue empty after storing three pages and then taking
\* out of the queue a url that two of them had linked to and that it had stored
C22_Witness ==
    /\ crawl.state = "returned"
    /\ crawl.to_visit = <<>>
    /\ crawl.last.outcome = "seen"
    /\ Cardinality(crawl.visited) = 3
    /\ crawl.turns >= 4

(***************************************************************************)
(* C21.  No crawl loop is left by an exception of scrape_website: however  *)
(* the requests of a fetch end, the call returns the soup or None and the  *)
(* loop goes on.                                                           *)
(***************************************************************************)
C21_FetchFailureNeverRaises ==
    \A w \in Crawlers : net.loop[w] # "raised by scrape_website"

\* the failures after which a request is worth repeating
Transient == {"network", "timeout"}

(***************************************************************************)
(* C24.  A scrape_website call makes at most 3 requests; a request is      *)
(* followed by another only if it failed, and always if it failed with a   *)
(* network error or a timeout and was not the third; the call returns the  *)
(* soup if its last request succeeded and None, a fetch failure, if not.   *)
(***************************************************************************)
C24_BoundedRetry ==
    LET a == net.last.attempts
    IN  a # <<>> =>
          /\ Len(a) <= MaxAttempts
          /\ \A i \in 1..(Len(a) - 1) : a[i] # "ok"
          /\ a[Len(a)] \in Transient => Len(a) = MaxAttempts
          /\ net.last.ret = IF a[Len(a)] = "ok" THEN "soup" ELSE "None"

(***************************************************************************)
(* C27.  Of the requests the process has begun, for pages and for          *)
(* robots.txt, no two begin less than 5 seconds apart.                     *)
(***************************************************************************)
C27_GlobalRateLimit ==
    \A i, j \in 1..Len(net.starts) :
        i < j => net.starts[j].at - net.starts[i].at >= RatePeriod

\* what a read recorded in lastOp returns on the database st
ReadOn(st) ==
    IF lastOp.op = "get_children" THEN MongoGetChildren(st, lastOp.args[1])
    ELSE MongoGetParent(st, lastOp.args[1])

(***************************************************************************)
(* C30.  From the moment remove_link(N) begins, and as long as the other   *)
(* process has written nothing, the database is either what it was before  *)
(* the removal or what the whole removal makes of that, and a read of the  *)
(* other process returns what it returns on one of the two; and once a     *)
(* remove_link(N) and an add_link(N, ...) have both returned, the database *)
(* is what the two calls make of it one after the other, in one of the two *)
(* orders.                                                                 *)
(***************************************************************************)
C30_RemovalIsAtomic ==
    LET after == MongoRemoveLink(race.before, race.rm.url)
        added(st) == MongoAddLink(st, race.ad.url, race.ad.parent, now)
    IN  /\ (race.rm.pc # "idle" /\ race.writes = 0) =>
              /\ mongo \in {race.before, after}
              /\ lastOp.op \in {"get_children", "get_parent"} =>
                    lastOp.mongoRet \in {ReadOn(race.before), ReadOn(after)}
        /\ (race.rm.pc = "done" /\ race.ad.pc = "done") =>
              mongo \in {added(MongoRemoveLink(race.base, race.rm.url)),
                         MongoRemoveLink(added(race.base), race.rm.url)}

\* the urls of the puts after the first k, in the order the puts were made
PutUrls(put, k) == [i \in 1..(Len(put) - k) |-> put[k + i].url]

(***************************************************************************)
(* C31.  Within one crawl the k-th url taken from the queue is the url of  *)
(* the k-th put, the first put being the start url, and the queue holds    *)
(* the puts not yet taken in the order they were made.  The depth of an    *)
(* item is 0 for the start url and one more than the depth of the item     *)
(* whose page it was found on; the puts are made in order of depth, so an  *)
(* item of depth d is taken before every item of depth d+1.                *)
(***************************************************************************)
C31_FrontierIsFifo ==
    crawl.state # "idle" =>
        /\ crawl.put[1] = Put(crawl.put[1].url, None, 0)
        /\ crawl.turns <= Len(crawl.put)
        /\ crawl.turns > 0 => crawl.last.url = crawl.put[crawl.turns].url
        /\ crawl.to_visit = PutUrls(crawl.put, crawl.turns)
        /\ crawl.depths = [i \in 1..Len(crawl.to_visit) |->
                              crawl.put[crawl.turns + i].depth]
        /\ \A i, j \in 1..Len(crawl.put) :
              i < j => crawl.put[i].depth <= crawl.put[j].depth

\* two urls of depth 1 and then one of depth 2 have been taken, another url of
\* depth 2 waits, and one url was found at both depths
C31_Witness ==
    /\ crawl.state = "running"
    /\ crawl.turns = 4
    /\ crawl.put[2].depth = 1 /\ crawl.put[3].depth = 1
    /\ crawl.put[4].depth = 2
    /\ Len(crawl.to_visit) = 1 /\ crawl.depths = <<2>>
    /\ crawl.to_visit[1] # crawl.last.url
    /\ \E i, j \in 1..Len(crawl.put) :
          /\ crawl.put[i].url = crawl.put[j].url
          /\ crawl.put[i].depth < crawl.put[j].depth

\* the urls put into the queue for links found on pages
Discovered == {crawl.put[i].url : i \in 2..Len(crawl.put)}

\* the links discover_links returned as external
ExternalFound == UNION {f.external : f \in crawl.found}

\* the img, script and link references that are the anchor of no page
ResourceOnlyFound ==
    UNION {f.resources : f \in crawl.found} \ UNION {f.links : f \in crawl.found}

\* what the puts and the fetches of the invocation have been so far
OnlyInternalQueued ==
    /\ \A i \in 2..Len(crawl.put) :
          /\ Netloc(crawl.put[i].url) = Netloc(crawl.put[i].from[1])
          /\ Netloc(crawl.put[i].url) = Netloc(crawl.put[1].url)
    /\ Discovered \cap (ExternalFound \cup ResourceOnlyFound) = {}
    /\ crawl.fetched \subseteq {crawl.put[i].url : i \in 1..Len(crawl.put)}
    /\ crawl.fetched \cap ExternalFound = {}

\* a turn on a url that is in visited
VisitedNotFetchedAgain ==
    (TurnTaken /\ crawl'.last.url \in crawl.visited) =>
        /\ ~crawl'.last.fetched
        /\ crawl'.fetched = crawl.fetched
        /\ neo' = neo
        /\ crawl'.visited = crawl.visited

(***************************************************************************)
(* C32.  Every url put into the queue for a link has the netloc of the     *)
(* page the link was found on and of the start url; no link that           *)
(* discover_links returned as external, and no img, script or link         *)
(* reference that is the anchor of no page, is put into the queue for a    *)
(* link or fetched; only urls taken from the queue are fetched; and a turn *)
(* on a url that is in visited fetches nothing, however often the url is   *)
(* in the queue.                                                           *)
(***************************************************************************)
C32_OnlyInternalLinksNavigated ==
    []OnlyInternalQueued /\ [][VisitedNotFetchedAgain]_vars

\* a page with an external link and references to resources has been stored,
\* a url found on two pages was in the queue twice, and its second turn has
\* just found it in visited
C32_Witness ==
    /\ crawl.last.outcome = "seen"
    /\ crawl.last.url \in crawl.fetched
    /\ ExternalFound # {}
    /\ ResourceOnlyFound # {}
    /\ \E f \in crawl.found : f.resources \cap f.links = {} /\ f.resources # {}
    /\ \E f \in crawl.found : f.resources \cap Discovered # {}
    /\ \E i, j \in 2..Len(crawl.put) :
          /\ i < j
          /\ crawl.put[i].url = crawl.put[j].url
          /\ crawl.put[i].from # crawl.put[j].from

====
